---- MODULE Spec2Model ----
(***************************************************************************)
(* Model of the VoiceUpdate model-sync pipeline (src/model_sync.py), with  *)
(* the callers in src/auto_updater.py that start it, and of the            *)
(* application self-update, the backup cleanup and the version comparison  *)
(* of src/update_manager.py.                                               *)
(*                                                                         *)
(* Files are records [ex, data]: ex says whether the path exists, data is  *)
(* the content as a sequence of chunks (one number stands for one chunk    *)
(* that iter_content yields).  Text (hash strings) is a sequence of        *)
(* one-character strings.                                                  *)
(***************************************************************************)
EXTENDS Integers, Sequences, FiniteSets, TLC

VARIABLES
    config,      \* ModelSyncManager.config: registry of the components
    settings,    \* AutoUpdater.settings (the keys the model-check path reads)
    remote,      \* what the server holds for each component's url
    temp,        \* the staged download file of each component (.cache/models/downloads)
    dest,        \* the installed artifact of each component
    ledger,      \* model_versions.json: component -> installed version (<<>> = no key)
    backups,     \* per component, the snapshots under .cache/models/backups
    pc,          \* position of each background thread
    queue,       \* models_to_sync_list still to process, per thread
    cur,         \* model_name the thread's download_model is working on
    dl,          \* the thread's download_file frame
    att,         \* history of the thread's current download_model call
    lver,        \* current_versions as read by the thread (download_model line 393)
    nStarted,    \* threads started so far
    nPublished,  \* registry reconfigurations so far
    tag,         \* history of each staged file: how its current content came about
    vin,         \* inputs of a stand-alone verify_file_integrity call
    vout,        \* its result
    env,         \* what the environment may do: "any" (faults allowed) or "good"
    su,          \* the application self-update: release, files, position
    cl,          \* a stand-alone cleanup_old_backups call: directory, inputs, result
    cv,          \* a stand-alone compare_versions call: inputs and results
    sc,          \* the scheduler of AutoUpdater: clock, settings file, timers, check threads
    du,          \* a stand-alone should_check_updates / should_check_models call
    fs,          \* a stand-alone write of the ledger or the settings file
    rg,          \* a stand-alone load_config call: persisted file and loaded registry
    ev,          \* the check events of AutoUpdater: per kind, started and completed
    ua,          \* the handling of an update-available event of the application
    fr,          \* two check threads saving the shared settings
    pg           \* a stand-alone progress computation: inputs and emitted values

vars == <<config, settings, remote, temp, dest, ledger, backups, pc, queue, cur,
          dl, att, lver, nStarted, nPublished, tag, vin, vout, env, su, cl, cv,
          sc, du, fs, rg, ev, ua, fr, pg>>

-----------------------------------------------------------------------------
(* Bounds of the model *)

\* background threads started in one behaviour
MaxStarts == 2
\* registry reconfigurations (a new release of a component) in one behaviour
MaxPublish == 1
\* stand-alone download_file calls in one behaviour of SpecDL
MaxCalls == 3
\* longest file content drawn as an input of verify_file_integrity
MaxVerifyLen == 2

Components == {"m1", "m2"}
Workers == {1, 2}

NoFile == [ex |-> FALSE, data |-> <<>>]
File(d) == [ex |-> TRUE, data |-> d]

\* The content the server holds for release n of a component; release 0 is
\* the artifact shipped with the application.
ReleaseContent(n) ==
    CASE n = 0 -> <<6>>
      [] n = 1 -> <<1, 2>>
      [] OTHER -> <<3, 4>>

\* The body of an HTML page the host answers with (interstitial or error page).
HtmlPage == <<9>>

Min(a, b) == IF a < b THEN a ELSE b

IsPrefix(s, t) == Len(s) <= Len(t) /\ SubSeq(t, 1, Len(s)) = s
IsSuffix(s, t) == Len(s) <= Len(t) /\ SubSeq(t, Len(t) - Len(s) + 1, Len(t)) = s

-----------------------------------------------------------------------------
(* hashlib.sha256(...).hexdigest(): a lower-case hex string that depends   *)
(* on the whole content.  The model's digest is injective on contents      *)
(* (no collisions), and its characters include letters, so that case       *)
(* matters when two digests are compared.                                  *)

HexDigits == <<"0", "a", "b", "c", "d", "e", "f", "7", "8", "9",
               "1", "2", "3", "4", "5", "6">>
HexOf(n) == HexDigits[(n % 16) + 1]

Sha256Hex(data) == <<HexOf(Len(data))>> \o [i \in 1..Len(data) |-> HexOf(data[i])]

\* str.lower() and str.upper() on the characters of a hex string
ToLowerCh(ch) ==
    CASE ch = "A" -> "a" [] ch = "B" -> "b" [] ch = "C" -> "c"
      [] ch = "D" -> "d" [] ch = "E" -> "e" [] ch = "F" -> "f"
      [] OTHER -> ch
ToUpperCh(ch) ==
    CASE ch = "a" -> "A" [] ch = "b" -> "B" [] ch = "c" -> "C"
      [] ch = "d" -> "D" [] ch = "e" -> "E" [] ch = "f" -> "F"
      [] OTHER -> ch
Lower(s) == [i \in 1..Len(s) |-> ToLowerCh(s[i])]
Upper(s) == [i \in 1..Len(s) |-> ToUpperCh(s[i])]

\* An expected hash as Python sees it: None, or a string (possibly empty).
PyNone == [isNone |-> TRUE, s |-> <<>>]
PyStr(s) == [isNone |-> FALSE, s |-> s]
\* `if expected_hash:` -- None and "" are both false
Truthy(h) == ~h.isNone /\ Len(h.s) > 0

\* ModelDownloader.verify_file_integrity.  readOK = FALSE is the read of the
\* file raising, which the except clause turns into False.
MutVerifyCaseSensitive(file, expected_hash, readOK) ==
    IF ~file.ex THEN FALSE
    ELSE IF Truthy(expected_hash)
         THEN readOK /\ Sha256Hex(file.data) = expected_hash.s
         ELSE Len(file.data) > 0

VerifyFileIntegrity(file, expected_hash, readOK) ==
    IF ~file.ex THEN FALSE
    ELSE IF Truthy(expected_hash)
         THEN readOK /\ Lower(Sha256Hex(file.data)) = Lower(expected_hash.s)
         ELSE Len(file.data) > 0

-----------------------------------------------------------------------------
(* ModelDownloader.download_file *)

\* What the host does with a GET.  "honour" serves the requested byte range
\* (206; 416 when the range starts at or after the end), "full" ignores any
\* Range header and serves the whole content (200), "empty" is a 200 with no
\* body, "error" is a transport error or an HTTP error status,
\* "html_confirm" is the interstitial page carrying a confirmation link and
\* "html_plain" an HTML page without one.
FirstAnswers == {"honour", "full", "empty", "error", "html_confirm", "html_plain"}
\* Answers to the request re-issued against the confirmation link.
SecondAnswers == {"honour", "full", "error", "html_plain"}

\* A response as download_file sees it: an exception (err), or its status,
\* whether its content type is text/html, and its body.
NoResponse == [err |-> TRUE, status |-> 0, html |-> FALSE, body |-> <<>>]
Response(status, html, body) ==
    [err |-> FALSE, status |-> status, html |-> html, body |-> body]

\* session.get(url, headers) followed by raise_for_status: the response the
\* host gives for `content` when the request carries Range: bytes=from-
\* (ranged) or no Range header.
ServerAnswer(kind, content, ranged, from) ==
    CASE kind = "honour" ->
           IF ~ranged THEN Response(200, FALSE, content)
           ELSE IF from < Len(content)
                THEN Response(206, FALSE, SubSeq(content, from + 1, Len(content)))
                ELSE NoResponse
      [] kind = "full" -> Response(200, FALSE, content)
      [] kind = "empty" -> Response(200, FALSE, <<>>)
      [] kind \in {"html_confirm", "html_plain"} -> Response(200, TRUE, HtmlPage)
      [] OTHER -> NoResponse

\* lines 83-88: the offset the download starts from
InitialPos(file, resume) ==
    IF resume /\ file.ex THEN Len(file.data) ELSE 0

\* line 112: mode = 'ab' if resume and initial_pos > 0 else 'wb'
MutFileModeOverwrite(resume, initial_pos) == "wb"

FileMode(resume, initial_pos) ==
    IF resume /\ initial_pos > 0 THEN "ab" ELSE "wb"

\* open(local_path, mode) and the writes of the first j chunks of body
WriteChunks(file, mode, body, j) ==
    File((IF mode = "ab" /\ file.ex THEN file.data ELSE <<>>) \o SubSeq(body, 1, j))

\* The frame of a download_file call.  status and html are those of the
\* response that is written; file0 and base are the local file and its
\* history when the call started.
NoDl == [st |-> "none", resume |-> FALSE, initial_pos |-> 0, ranged |-> FALSE,
         reissued |-> FALSE, status |-> 0, html |-> FALSE, body |-> <<>>,
         mode |-> "wb", ok |-> FALSE, file0 |-> NoFile, base |-> "absent"]

\* lines 76-112: the size probe of the local file, the GET, the interstitial
\* handling and raise_for_status.  The re-issued request carries no headers.
DfRequest(w, c, resume) ==
    /\ dl[w].st = "none"
    /\ \E k1 \in FirstAnswers, k2 \in SecondAnswers :
         LET initial_pos == InitialPos(temp[c], resume)
             ranged == initial_pos > 0
             r1 == ServerAnswer(k1, remote[c], ranged, initial_pos)
             reissue == k1 = "html_confirm"
             r == IF reissue THEN ServerAnswer(k2, remote[c], FALSE, 0) ELSE r1
             frame == [NoDl EXCEPT !.resume = resume, !.initial_pos = initial_pos,
                                   !.ranged = ranged,
                                   !.reissued = reissue, !.file0 = temp[c],
                                   !.base = tag[c],
                                   !.mode = FileMode(resume, initial_pos)]
         IN  /\ (~reissue => k2 = "honour")
             /\ (env = "good" => k1 = "honour")
             /\ dl' = [dl EXCEPT ![w] =
                         IF r.err THEN [frame EXCEPT !.st = "ret", !.ok = FALSE]
                         ELSE [frame EXCEPT !.st = "open", !.body = r.body,
                                            !.status = r.status, !.html = r.html]]

\* lines 117-143: the file is opened and the chunks are written; the stream
\* may break after j chunks, which ends the call in failure and leaves what
\* was written.
DfWrite(w, c) ==
    /\ dl[w].st = "open"
    /\ \E j \in 0..Len(dl[w].body) :
         /\ (env = "good" => j = Len(dl[w].body))
         /\ temp' = [temp EXCEPT ![c] = WriteChunks(temp[c], dl[w].mode, dl[w].body, j)]
         /\ dl' = [dl EXCEPT ![w].st = "ret", ![w].ok = (j = Len(dl[w].body))]
         /\ tag' = [tag EXCEPT ![c] = IF j = Len(dl[w].body) THEN "complete" ELSE "partial"]

-----------------------------------------------------------------------------
(* Version strings and ModelSyncManager.compare_versions *)

Digits == <<"0", "1", "2", "3", "4", "5", "6", "7", "8", "9">>
IsDigit(ch) == \E i \in 1..10 : Digits[i] = ch
DigitVal(ch) == (CHOOSE i \in 1..10 : Digits[i] = ch) - 1

\* str.split('.'): the segments between the dots, empty segments kept
RECURSIVE SplitDots(_)
SplitDots(s) ==
    IF \A i \in 1..Len(s) : s[i] # "."
    THEN <<s>>
    ELSE LET k == CHOOSE i \in 1..Len(s) :
                      s[i] = "." /\ \A j \in 1..(i - 1) : s[j] # "."
         IN  <<SubSeq(s, 1, k - 1)>> \o SplitDots(SubSeq(s, k + 1, Len(s)))

\* int(x) succeeds on a non-empty run of digits
IntParses(seg) == Len(seg) > 0 /\ \A i \in 1..Len(seg) : IsDigit(seg[i])
RECURSIVE IntOf(_)
IntOf(seg) ==
    IF Len(seg) = 0 THEN 0
    ELSE 10 * IntOf(SubSeq(seg, 1, Len(seg) - 1)) + DigitVal(seg[Len(seg)])

\* v.extend([0] * (max_len - len(v)))
MutPadOnes(parts, n) == parts \o [i \in 1..(n - Len(parts)) |-> 1]

PadZeros(parts, n) == parts \o [i \in 1..(n - Len(parts)) |-> 0]

\* ModelSyncManager.compare_versions: 1, -1 or 0; 0 as well when int() raises
ModelCompareVersions(version1, version2) ==
    LET s1 == SplitDots(version1)
        s2 == SplitDots(version2)
    IN  IF \E i \in 1..Len(s1) : ~IntParses(s1[i]) THEN 0
        ELSE IF \E i \in 1..Len(s2) : ~IntParses(s2[i]) THEN 0
        ELSE LET max_len == IF Len(s1) > Len(s2) THEN Len(s1) ELSE Len(s2)
                 v1 == PadZeros([i \in 1..Len(s1) |-> IntOf(s1[i])], max_len)
                 v2 == PadZeros([i \in 1..Len(s2) |-> IntOf(s2[i])], max_len)
                 diff == {i \in 1..max_len : v1[i] # v2[i]}
             IN  IF diff = {} THEN 0
                 ELSE LET i == CHOOSE k \in diff : \A m \in diff : k <= m
                      IN  IF v1[i] > v2[i] THEN 1 ELSE -1

\* The version a release of a component is declared with in the registry.
ReleaseVersion(n) ==
    IF n <= 1 THEN <<"1", ".", "0", ".", "0">> ELSE <<"1", ".", "1", ".", "0">>
\* current_versions.get(model_name, "0.0.0")
DefaultLedgerVersion == <<"0", ".", "0", ".", "0">>

\* ModelSyncManager.check_for_model_updates, over the registry in its order
ModelOrder == <<"m1", "m2">>
RECURSIVE ModelsToUpdateFrom(_, _, _)
ModelsToUpdateFrom(i, cfg, versions) ==
    IF i > Len(ModelOrder) THEN <<>>
    ELSE LET model_name == ModelOrder[i]
             current_version == IF versions[model_name] = <<>>
                                THEN DefaultLedgerVersion
                                ELSE versions[model_name]
             remote_version == cfg.models[model_name].version
             rest == ModelsToUpdateFrom(i + 1, cfg, versions)
         IN  IF ModelCompareVersions(remote_version, current_version) > 0
             THEN <<model_name>> \o rest
             ELSE rest
CheckForModelUpdates(cfg, versions) == ModelsToUpdateFrom(1, cfg, versions)

-----------------------------------------------------------------------------
(* The registry (ModelSyncManager.config) and the state after construction *)
(*                                                                         *)
(* env = "any": the host may answer a request in any way, a stream may      *)
(* break, and a local copy, read or extraction may raise.  env = "good":   *)
(* the host serves what is asked and no local operation fails.             *)
(* env = "writable": as "any", but the ledger file can be written.         *)

UrlOf(c) == "https://drive.google.com/file/d/" \o c

\* One component entry of model_sync_config.json for release n.
ModelConfig(c, type, hashed, n) ==
    [url |-> UrlOf(c), version |-> ReleaseVersion(n), type |-> type,
     hash |-> IF hashed THEN PyStr(Upper(Sha256Hex(ReleaseContent(n)))) ELSE PyStr(<<>>)]

\* The built-in default entry: the url is empty until the user configures one.
Unconfigured(c, type) == [ModelConfig(c, type, FALSE, 1) EXCEPT !.url = ""]

\* The registries the model starts from.  m1 is a single file, with or
\* without a configured hash; m2 is an archive without a hash.  In each of
\* them one component has a url and the other is still unconfigured.
Registries ==
    { [models |-> [c \in Components |-> IF c = "m1" THEN e[1] ELSE e[2]],
       backup_old_models |-> b] :
        e \in {<<ModelConfig("m1", "file", TRUE, 1), Unconfigured("m2", "zip")>>,
               <<ModelConfig("m1", "file", FALSE, 1), Unconfigured("m2", "zip")>>,
               <<Unconfigured("m1", "file"), ModelConfig("m2", "zip", FALSE, 1)>>},
        b \in BOOLEAN }

\* The history of one download_model call: what backup_model returned,
\* whether download_file was entered, what the integrity step did and the
\* verdict of verify_file_integrity on the staged file, what install_model
\* did, whether the ledger was written, the installed artifact and the
\* ledger entry of the component when the call started, and whether
\* sync_error was emitted in the call.
NoAtt == [backup |-> "none", started |-> FALSE, verify |-> "none",
          accepted |-> FALSE, install |-> "none", wrote |-> FALSE,
          dest0 |-> NoFile, ledger0 |-> <<>>, err |-> FALSE]

NoVersions == [c \in Components |-> <<>>]

NoVin == [file |-> NoFile, hash |-> PyNone, readOK |-> TRUE]
NoVout == [done |-> FALSE, res |-> FALSE]

\* The application executable of release n (release 0 is the running one).
ExeContent(n) == <<10 + n>>

\* The self-update before anything has happened: position, the assets of
\* the release being installed, the downloaded file, sys.argv[0], the file
\* current_exe + '.new', the snapshots under .backup, the clock that stamps
\* them, replacements done and updates started so far; then the history of
\* the current update: what create_backup returned, whether the new
\* executable was staged and the helper started, what install_update
\* returned, the executable when the update started, and whether the user
\* has cancelled the progress dialog of the update.
NoSu == [pc |-> "idle", assets |-> <<>>, file |-> [name |-> <<>>, data |-> <<>>],
         exe |-> ExeContent(0), newexe |-> NoFile, backups |-> <<>>, clock |-> 0,
         installs |-> 0, rounds |-> 0,
         backup |-> "none", staged |-> FALSE, helper |-> FALSE, result |-> "none",
         exe0 |-> ExeContent(0), canceled |-> FALSE]

\* No cleanup_old_backups call and no compare_versions call
NoCl == [dir |-> <<>>, keep_count |-> 0, fails |-> {}, listing |-> "ok",
         done |-> FALSE, raised |-> FALSE, left |-> {}]
\* the results of one resolver on the pairs (a,b), (b,a), (b,c), (a,c)
NoCmp == [ab |-> 0, ba |-> 0, bc |-> 0, ac |-> 0, raised |-> FALSE]
NoCv == [a |-> PyNone, b |-> PyNone, c |-> PyNone, done |-> FALSE,
         app |-> NoCmp, model |-> NoCmp]

\* A timestamp as the settings hold it: None, or a string -- empty, the
\* isoformat of the time t, or something fromisoformat does not take.
NoStamp == [kind |-> "none", t |-> 0]
EmptyStamp == [kind |-> "empty", t |-> 0]
BadStamp == [kind |-> "bad", t |-> 0]
IsoStamp(t) == [kind |-> "iso", t |-> t]

\* AutoUpdater.on_model_sync_error (lines 302-305), connected to sync_error:
\* whether notification_requested is emitted for an emitted sync_error
OnModelSyncError(stg, emitted) == emitted /\ ~stg.silent_update

\* A call of should_check_updates ("app") or should_check_models ("model"):
\* the time of the call and what it returned.
NoDu == [done |-> FALSE, kind |-> "app", now |-> 0, due |-> FALSE]
\* The checks of AutoUpdater.check_for_app_updates and
\* check_for_model_updates: which managers exist, and for each check that
\* emitted its started signal the kind, how far its thread is, whether the
\* check found a newer version, how many completed signals it emitted and
\* the value of the last; and the syncs and notifications requested.
NoEv == [manager |-> [k \in {"app", "model"} |-> TRUE], checks |-> <<>>,
         calls |-> 0, syncs |-> 0, notes |-> 0]
\* The handling of update-available events of the application: the slots
\* of the event still to run, the events so far, the runs of
\* download_and_install_update for the last event, the on_downloaded
\* closures connected to checker.update_downloaded, the download threads
\* running, and the calls of install_update for the last completed download.
NoUa == [pc |-> "running", pending |-> {}, events |-> 0, runs |-> 0,
         handlers |-> 0, dls |-> 0, installs |-> 0]
\* One transfer of download_file ("model") or download_update ("app"): the
\* total size the downloader was told, the size of the partial file it
\* resumes from, the bytes the server has still to send, the bytes counted
\* so far, and the progress values emitted: how many, and the last one.
NoPg == [side |-> "model", total |-> 0, initial |-> 0, left |-> 0,
         downloaded |-> 0, emits |-> 0, last |-> 0]

\* A write of the version ledger ("ledger", save_model_versions) or of the
\* settings file ("settings", save_settings): the file, the text to write,
\* the file before the call, and how far the call is.
NoFs == [target |-> "ledger", st |-> "idle", file |-> NoFile, old |-> NoFile,
         new |-> <<>>]
\* A registry file read by load_config and a download_model call on the
\* registry it gave: the file (absent, unreadable, or a JSON object), the
\* loaded registry, the component and how the call ended.
NoRg == [st |-> "file", ex |-> FALSE, valid |-> FALSE, file |-> <<>>,
         config |-> <<>>, name |-> "-", outcome |-> "none"]

\* AutoUpdater.load_settings: default_settings
DefaultSettings ==
    [auto_check_updates |-> TRUE, auto_check_models |-> TRUE,
     update_check_interval_hours |-> 6, model_check_interval_hours |-> 24,
     silent_update |-> FALSE, auto_install_updates |-> FALSE,
     auto_install_models |-> TRUE,
     last_update_check |-> NoStamp, last_model_check |-> NoStamp,
     startup_delay_seconds |-> 30]

\* The two check kinds: "app" (update_timer, should_check_updates,
\* check_for_app_updates) and "model" (model_timer, should_check_models,
\* check_for_model_updates).
Kinds == {"app", "model"}

\* A QTimer: whether it runs, its interval, the hours left until its next
\* timeout, and the operation that last started or stopped it.
NoTimer == [active |-> FALSE, interval |-> 0, left |-> 0, by |-> "none"]

\* The scheduler after construction: the clock, the settings file, the two
\* timers, the check threads of each kind, the pending singleShot calls of
\* perform_startup_checks and the counters that bound a behaviour.  routine
\* records the calls of perform_startup_checks of this process (the time,
\* what was due, and the timestamps and intervals it read); mid records,
\* for a crash, the stamp time of a thread that was in its check with its
\* timestamp saved; stopped records that stop_auto_updater was called and
\* neither start_auto_updater nor an enabling toggle since.
NoSc == [now |-> 0, file |-> DefaultSettings,
         timer |-> [k \in Kinds |-> NoTimer],
         th |-> [k \in Kinds |-> <<>>],
         pending |-> 0, starts |-> 0, ops |-> 0, crashes |-> 0,
         routine |-> <<>>,
         mid |-> [k \in Kinds |-> -1],
         stopped |-> FALSE]

\* The text of a settings file: nothing (a file just opened for writing),
\* the JSON text of a settings dict, or bytes that are no JSON document.
\* len is the length of the text beyond that of a text without timestamps,
\* in timestamps: null is shorter than an ISO timestamp.
EmptyText == [kind |-> "empty", stg |-> DefaultSettings, len |-> 0]

\* The two check threads of one force_check_all: the clock, the settings
\* file, and for each thread how far it is, when it stamped, and what its
\* file object holds buffered.
NoFr == [st |-> "idle", now |-> 1, file |-> EmptyText,
         th |-> [k \in Kinds |-> [pc |-> "none", at |-> 0, buf |-> EmptyText]]]

\* What the application ships with: m1 is installed, m2 is not yet.
ShippedModels == [c \in Components |-> IF c = "m1" THEN File(ReleaseContent(0)) ELSE NoFile]

Init ==
    /\ config \in Registries
    /\ settings = DefaultSettings
    /\ remote = [c \in Components |-> ReleaseContent(1)]
    /\ temp = [c \in Components |-> NoFile]
    /\ tag = [c \in Components |-> "absent"]
    /\ dest = ShippedModels
    /\ ledger = NoVersions
    /\ backups = [c \in Components |-> <<>>]
    /\ pc = [w \in Workers |-> "idle"]
    /\ queue = [w \in Workers |-> <<>>]
    /\ cur = [w \in Workers |-> "-"]
    /\ dl = [w \in Workers |-> NoDl]
    /\ att = [w \in Workers |-> NoAtt]
    /\ lver = [w \in Workers |-> NoVersions]
    /\ nStarted = 0
    /\ nPublished = 0
    /\ vin = NoVin
    /\ vout = NoVout
    /\ env \in {"any", "good"}
    /\ su = NoSu
    /\ cl = NoCl
    /\ cv = NoCv
    /\ sc = NoSc
    /\ du = NoDu
    /\ ev = NoEv
    /\ ua = NoUa
    /\ fr = NoFr
    /\ pg = NoPg
    /\ fs = NoFs
    /\ rg = NoRg

-----------------------------------------------------------------------------
(* Starting the background threads *)

\* AutoUpdater.check_for_model_updates: emits model_sync_started and starts
\* check_thread.  Nothing in it looks at a check that is already running.
CheckForModelUpdatesStart(w) ==
    /\ pc[w] = "idle"
    /\ nStarted < MaxStarts
    /\ pc' = [pc EXCEPT ![w] = "check"]
    /\ nStarted' = nStarted + 1
    /\ UNCHANGED <<config, settings, remote, temp, dest, ledger, backups, queue, cur,
                   dl, att, lver, nPublished, tag, vin, vout, env, su, cl, cv,
                   sc, du, fs, rg,
                   ev, ua, fr, pg>>

\* check_thread of AutoUpdater.check_for_model_updates (lines 241-267); the
\* sync thread it starts takes over the slot of the check thread, which
\* only emits model_sync_completed after the call.
CheckThread(w) ==
    /\ pc[w] = "check"
    /\ LET models_to_update == CheckForModelUpdates(config, ledger)
       IN  IF models_to_update # <<>> /\ settings.auto_install_models
           THEN /\ pc' = [pc EXCEPT ![w] = "sync"]
                /\ queue' = [queue EXCEPT ![w] = models_to_update]
           ELSE /\ pc' = [pc EXCEPT ![w] = "idle"]
                /\ UNCHANGED queue
    /\ UNCHANGED <<config, settings, remote, temp, dest, ledger, backups, cur,
                   dl, att, lver, nStarted, nPublished, tag, vin, vout, env, su, cl, cv,
                   sc, du, fs, rg,
                   ev, ua, fr, pg>>

\* models_to_sync = None is kept as this marker until the thread resolves it
AllModels == <<"*">>

\* ModelSyncManager.sync_models_async(models_to_sync), called directly
SyncModelsAsync(w, models_to_sync) ==
    /\ pc[w] = "idle"
    /\ nStarted < MaxStarts
    /\ pc' = [pc EXCEPT ![w] = "sync"]
    /\ queue' = [queue EXCEPT ![w] = models_to_sync]
    /\ nStarted' = nStarted + 1
    /\ UNCHANGED <<config, settings, remote, temp, dest, ledger, backups, cur,
                   dl, att, lver, nPublished, tag, vin, vout, env, su, cl, cv,
                   sc, du, fs, rg,
                   ev, ua, fr, pg>>

\* sync_thread: resolving the list (lines 437-446) and the head of the loop
\* over it (lines 450-454); past the last model the thread ends.
SyncThreadNext(w) ==
    /\ pc[w] = "sync"
    /\ LET list == IF queue[w] = AllModels
                   THEN CheckForModelUpdates(config, ledger)
                   ELSE queue[w]
       IN  IF list = <<>>
           THEN /\ pc' = [pc EXCEPT ![w] = "idle"]
                /\ queue' = [queue EXCEPT ![w] = <<>>]
                /\ cur' = [cur EXCEPT ![w] = "-"]
                /\ att' = [att EXCEPT ![w] = NoAtt]
           ELSE /\ pc' = [pc EXCEPT ![w] = "dm"]
                /\ queue' = [queue EXCEPT ![w] = Tail(list)]
                /\ cur' = [cur EXCEPT ![w] = Head(list)]
                /\ att' = [att EXCEPT ![w] = [NoAtt EXCEPT !.dest0 = dest[Head(list)],
                                                           !.ledger0 = ledger[Head(list)]]]
    /\ UNCHANGED <<config, settings, remote, temp, dest, ledger, backups,
                   dl, lver, nStarted, nPublished, tag, vin, vout, env, su, cl, cv,
                   sc, du, fs, rg,
                   ev, ua, fr, pg>>

-----------------------------------------------------------------------------
(* ModelSyncManager.download_model, one action per step *)

\* lines 351-356: no url configured; sync_error is emitted
DmNoUrl(w) ==
    /\ pc[w] = "dm"
    /\ config.models[cur[w]].url = ""
    /\ pc' = [pc EXCEPT ![w] = "sync"]
    /\ att' = [att EXCEPT ![w].err = TRUE]
    /\ UNCHANGED <<config, settings, remote, temp, dest, ledger, backups, queue, cur,
                   dl, lver, nStarted, nPublished, tag, vin, vout, env, su, cl, cv,
                   sc, du, fs, rg,
                   ev, ua, fr, pg>>

\* ModelSyncManager.backup_model: "noop" when backups are off or nothing is
\* installed, "ok" with a new snapshot, "failed" when the copy raises.
BackupOutcomes(cfg, installed) ==
    IF ~cfg.backup_old_models \/ ~installed.ex THEN {"noop"} ELSE {"ok", "failed"}

\* lines 358-360: backup_model is called as a statement; whatever it
\* returns, download_model goes on to the download.
DmBackup(w) ==
    /\ pc[w] = "dm"
    /\ config.models[cur[w]].url # ""
    /\ \E outcome \in BackupOutcomes(config, dest[cur[w]]) :
         /\ (env = "good" => outcome # "failed")
         /\ backups' = IF outcome = "ok"
                       THEN [backups EXCEPT ![cur[w]] = Append(@, dest[cur[w]].data)]
                       ELSE backups
         /\ att' = [att EXCEPT ![w].backup = outcome]
         /\ pc' = [pc EXCEPT ![w] = "download"]
    /\ UNCHANGED <<config, settings, remote, temp, dest, ledger, queue, cur,
                   dl, lver, nStarted, nPublished, tag, vin, vout, env, su, cl, cv,
                   sc, du, fs, rg,
                   ev, ua, fr, pg>>

\* line 374: download_file(url, temp_path), resume left at its default True
DmRequest(w) ==
    /\ pc[w] = "download"
    /\ DfRequest(w, cur[w], TRUE)
    /\ att' = [att EXCEPT ![w].started = TRUE]
    /\ UNCHANGED <<config, settings, remote, temp, dest, ledger, backups, pc, queue, cur,
                   lver, nStarted, nPublished, tag, vin, vout, env, su, cl, cv,
                   sc, du, fs, rg,
                   ev, ua, fr, pg>>

DmWrite(w) ==
    /\ pc[w] = "download"
    /\ DfWrite(w, cur[w])
    /\ UNCHANGED <<config, settings, remote, dest, ledger, backups, pc, queue, cur,
                   att, lver, nStarted, nPublished, vin, vout, env, su, cl, cv,
                   sc, du, fs, rg,
                   ev, ua, fr, pg>>

\* lines 376-377.  download_file returns False only from its except
\* clause (lines 140-143), which emits download_error; that signal is
\* connected to sync_error.emit (line 202).
DmDownloadFailed(w) ==
    /\ pc[w] = "download"
    /\ dl[w].st = "ret" /\ ~dl[w].ok
    /\ pc' = [pc EXCEPT ![w] = "sync"]
    /\ dl' = [dl EXCEPT ![w] = NoDl]
    /\ att' = [att EXCEPT ![w].err = TRUE]
    /\ UNCHANGED <<config, settings, remote, temp, dest, ledger, backups, queue, cur,
                   lver, nStarted, nPublished, tag, vin, vout, env, su, cl, cv,
                   sc, du, fs, rg,
                   ev, ua, fr, pg>>

\* lines 380-385: whether download_model goes on to install, given the
\* configured hash and the verdict of verify_file_integrity on the staged file
MutProceedAlways(expected_hash, verdict) == TRUE

ProceedToInstall(expected_hash, verdict) ==
    IF Truthy(expected_hash) THEN verdict ELSE TRUE

\* lines 379-385; a rejected file emits sync_error.  att.accepted records the verdict verify_file_integrity
\* gives on the staged file, also when download_model does not ask for it.
DmVerify(w) ==
    /\ pc[w] = "download"
    /\ dl[w].st = "ret" /\ dl[w].ok
    /\ \E readOK \in BOOLEAN :
         LET expected_hash == config.models[cur[w]].hash
             verdict == VerifyFileIntegrity(temp[cur[w]], expected_hash, readOK)
             go == ProceedToInstall(expected_hash, verdict)
         IN  /\ (~Truthy(expected_hash) => readOK)
             /\ (env = "good" => readOK)
             /\ att' = [att EXCEPT ![w].accepted = verdict,
                                   ![w].verify = IF ~Truthy(expected_hash) THEN "skipped"
                                                 ELSE IF verdict THEN "accepted"
                                                 ELSE "rejected",
                                   ![w].err = (Truthy(expected_hash) /\ ~verdict)]
             /\ pc' = [pc EXCEPT ![w] = IF go THEN "install" ELSE "sync"]
             /\ tag' = [tag EXCEPT ![cur[w]] =
                          IF Truthy(expected_hash) /\ ~verdict THEN "rejected" ELSE @]
    /\ dl' = [dl EXCEPT ![w] = NoDl]
    /\ UNCHANGED <<config, settings, remote, temp, dest, ledger, backups, queue, cur,
                   lver, nStarted, nPublished, vin, vout, env, su, cl, cv,
                   sc, du, fs, rg,
                   ev, ua, fr, pg>>

\* zipfile.ZipFile reads the archive from its end, so data in front of a
\* complete archive is tolerated; anything else is not a zip file.
ValidZip(data) == \E n \in 0..2 : IsSuffix(ReleaseContent(n), data)
ZipPayload(data) ==
    ReleaseContent(CHOOSE n \in 0..2 : IsSuffix(ReleaseContent(n), data))

\* ModelSyncManager.install_model: the results it can have on the staged
\* file.  "ok" installs it; "failed" raises before anything is written (a
\* missing or unreadable staged file, a file that is no archive); "partial"
\* raises after j chunks of the new artifact were written over the old one.
InstallResults(type, staged, installed) ==
    IF ~staged.ex \/ (type = "zip" /\ ~ValidZip(staged.data))
    THEN {[result |-> "failed", dest |-> installed]}
    ELSE LET new == IF type = "zip" THEN ZipPayload(staged.data) ELSE staged.data
         IN  {[result |-> "ok", dest |-> File(new)],
              [result |-> "failed", dest |-> installed]}
             \cup {[result |-> "partial", dest |-> File(SubSeq(new, 1, j))] :
                     j \in 0..(Len(new) - 1)}

\* lines 388-390: when install_model returns False, download_model returns
\* False; install_model only prints its exception, nothing is emitted
DmInstall(w) ==
    /\ pc[w] = "install"
    /\ \E r \in InstallResults(config.models[cur[w]].type, temp[cur[w]], dest[cur[w]]) :
         /\ (env = "good" => (r.result = "ok" \/ ~temp[cur[w]].ex
                                \/ (config.models[cur[w]].type = "zip"
                                    /\ ~ValidZip(temp[cur[w]].data))))
         /\ dest' = [dest EXCEPT ![cur[w]] = r.dest]
         /\ att' = [att EXCEPT ![w].install = r.result]
         /\ pc' = [pc EXCEPT ![w] = IF r.result = "ok" THEN "ledger_read" ELSE "sync"]
         /\ tag' = [tag EXCEPT ![cur[w]] = IF r.result = "ok" THEN "installed" ELSE @]
    /\ UNCHANGED <<config, settings, remote, temp, ledger, backups, queue, cur,
                   dl, lver, nStarted, nPublished, vin, vout, env, su, cl, cv,
                   sc, du, fs, rg,
                   ev, ua, fr, pg>>

\* line 393: current_versions = self.get_model_versions()
DmLedgerRead(w) ==
    /\ pc[w] = "ledger_read"
    /\ lver' = [lver EXCEPT ![w] = ledger]
    /\ pc' = [pc EXCEPT ![w] = "ledger_write"]
    /\ UNCHANGED <<config, settings, remote, temp, dest, ledger, backups, queue, cur,
                   dl, att, nStarted, nPublished, tag, vin, vout, env, su, cl, cv,
                   sc, du, fs, rg,
                   ev, ua, fr, pg>>

\* save_model_versions (lines 277-283): the ledger file is rewritten with
\* the mapping, or the write raises, which is printed and swallowed
SaveModelVersions(file, versions, ok) == IF ok THEN versions ELSE file

\* lines 394-398: the entry is set and the whole mapping is written back;
\* model_updated is emitted and True returned whatever save_model_versions did
DmLedgerWrite(w) ==
    /\ pc[w] = "ledger_write"
    /\ \E ok \in BOOLEAN :
         /\ (env \in {"good", "writable"} => ok)
         /\ ledger' = SaveModelVersions(ledger,
                          [lver[w] EXCEPT ![cur[w]] = config.models[cur[w]].version], ok)
         /\ att' = [att EXCEPT ![w].wrote = ok]
    /\ lver' = [lver EXCEPT ![w] = NoVersions]
    /\ pc' = [pc EXCEPT ![w] = "sync"]
    /\ UNCHANGED <<config, settings, remote, temp, dest, backups, queue, cur,
                   dl, nStarted, nPublished, tag, vin, vout, env, su, cl, cv,
                   sc, du, fs, rg,
                   ev, ua, fr, pg>>

\* A new release of a component: the server holds the new content and the
\* registry file declares its version and hash.  The registry is read once,
\* in the constructor, so the program sees it after a restart: no thread runs.
Publish(c) ==
    /\ \A w \in Workers : pc[w] = "idle"
    /\ nPublished < MaxPublish
    /\ config.models[c].version = ReleaseVersion(1)
    /\ remote' = [remote EXCEPT ![c] = ReleaseContent(2)]
    /\ config' = [config EXCEPT
                    !.models[c].version = ReleaseVersion(2),
                    !.models[c].hash = IF Truthy(@)
                                       THEN PyStr(Upper(Sha256Hex(ReleaseContent(2))))
                                       ELSE @]
    /\ nPublished' = nPublished + 1
    /\ UNCHANGED <<settings, temp, dest, ledger, backups, pc, queue, cur,
                   dl, att, lver, nStarted, tag, vin, vout, env, su, cl, cv,
                   sc, du, fs, rg,
                   ev, ua, fr, pg>>

\* What one background thread can do next
WorkerStep(w) ==
    \/ CheckForModelUpdatesStart(w)
    \/ CheckThread(w)
    \/ \E l \in {AllModels, <<"m1">>, <<"m2">>} : SyncModelsAsync(w, l)
    \/ SyncThreadNext(w)
    \/ DmNoUrl(w)
    \/ DmBackup(w)
    \/ DmRequest(w)
    \/ DmWrite(w)
    \/ DmDownloadFailed(w)
    \/ DmVerify(w)
    \/ DmInstall(w)
    \/ DmLedgerRead(w)
    \/ DmLedgerWrite(w)

\* Spec: the pipeline with one background thread at a time (every check or
\* sync is started after the previous one has ended).
Next ==
    \/ WorkerStep(1)
    \/ \E c \in Components : Publish(c)

Spec == Init /\ [][Next]_vars

-----------------------------------------------------------------------------
(* SpecMT: the pipeline with two background threads.  Nothing in            *)
(* check_for_model_updates, force_check_all or sync_models_async waits for  *)
(* a running thread, so a second one can be started at any moment.          *)
(* The ledger file is writable here (env = "writable"): what two threads   *)
(* do to the ledger is then the doing of their interleaving alone.          *)

RegistryMT ==
    [models |-> [c \in Components |->
                   IF c = "m1" THEN ModelConfig("m1", "file", TRUE, 1)
                   ELSE ModelConfig("m2", "zip", FALSE, 1)],
     backup_old_models |-> TRUE]

\* Both components configured, or m2 still unconfigured.
RegistriesMT ==
    {RegistryMT, [RegistryMT EXCEPT !.models["m2"] = Unconfigured("m2", "zip")]}

InitMT ==
    /\ config \in RegistriesMT
    /\ settings = DefaultSettings
    /\ remote = [c \in Components |-> ReleaseContent(1)]
    /\ temp = [c \in Components |-> NoFile]
    /\ tag = [c \in Components |-> "absent"]
    /\ dest = ShippedModels
    /\ ledger = NoVersions
    /\ backups = [c \in Components |-> <<>>]
    /\ pc = [w \in Workers |-> "idle"]
    /\ queue = [w \in Workers |-> <<>>]
    /\ cur = [w \in Workers |-> "-"]
    /\ dl = [w \in Workers |-> NoDl]
    /\ att = [w \in Workers |-> NoAtt]
    /\ lver = [w \in Workers |-> NoVersions]
    /\ nStarted = 0
    /\ nPublished = 0
    /\ vin = NoVin
    /\ vout = NoVout
    /\ env = "writable"
    /\ su = NoSu
    /\ cl = NoCl
    /\ cv = NoCv
    /\ sc = NoSc
    /\ du = NoDu
    /\ ev = NoEv
    /\ ua = NoUa
    /\ fr = NoFr
    /\ pg = NoPg
    /\ fs = NoFs
    /\ rg = NoRg

NextMT == \E w \in Workers : WorkerStep(w)

SpecMT == InitMT /\ [][NextMT]_vars

-----------------------------------------------------------------------------
(* SpecDL: download_file called on its own, again and again on the same    *)
(* local path, by one caller.                                               *)

InitDL ==
    /\ config = RegistryMT
    /\ settings = DefaultSettings
    /\ remote = [c \in Components |-> ReleaseContent(1)]
    /\ temp = [c \in Components |-> NoFile]
    /\ tag = [c \in Components |-> "absent"]
    /\ dest = ShippedModels
    /\ ledger = NoVersions
    /\ backups = [c \in Components |-> <<>>]
    /\ pc = [w \in Workers |-> "idle"]
    /\ queue = [w \in Workers |-> <<>>]
    /\ cur = [w \in Workers |-> "-"]
    /\ dl = [w \in Workers |-> NoDl]
    /\ att = [w \in Workers |-> NoAtt]
    /\ lver = [w \in Workers |-> NoVersions]
    /\ nStarted = 0
    /\ nPublished = 0
    /\ vin = NoVin
    /\ vout = NoVout
    /\ env = "any"
    /\ su = NoSu
    /\ cl = NoCl
    /\ cv = NoCv
    /\ sc = NoSc
    /\ du = NoDu
    /\ ev = NoEv
    /\ ua = NoUa
    /\ fr = NoFr
    /\ pg = NoPg
    /\ fs = NoFs
    /\ rg = NoRg

\* download_file(url, local_path, resume) is entered
DLCall(resume) ==
    /\ nStarted < MaxCalls
    /\ DfRequest(1, "m1", resume)
    /\ nStarted' = nStarted + 1
    /\ UNCHANGED <<config, settings, remote, temp, dest, ledger, backups, pc, queue, cur,
                   att, lver, nPublished, tag, vin, vout, env, su, cl, cv,
                   sc, du, fs, rg,
                   ev, ua, fr, pg>>

DLWrite ==
    /\ DfWrite(1, "m1")
    /\ UNCHANGED <<config, settings, remote, dest, ledger, backups, pc, queue, cur,
                   att, lver, nStarted, nPublished, vin, vout, env, su, cl, cv,
                   sc, du, fs, rg,
                   ev, ua, fr, pg>>

\* the caller has the result; the frame is gone
DLReturn ==
    /\ dl[1].st = "ret"
    /\ dl' = [dl EXCEPT ![1] = NoDl]
    /\ UNCHANGED <<config, settings, remote, temp, dest, ledger, backups, pc, queue, cur,
                   att, lver, nStarted, nPublished, tag, vin, vout, env, su, cl, cv,
                   sc, du, fs, rg,
                   ev, ua, fr, pg>>

\* between two calls the server gets the next release
DLPublish ==
    /\ dl[1].st = "none"
    /\ nPublished < MaxPublish
    /\ remote' = [remote EXCEPT !["m1"] = ReleaseContent(2)]
    /\ nPublished' = nPublished + 1
    /\ UNCHANGED <<config, settings, temp, dest, ledger, backups, pc, queue, cur,
                   dl, att, lver, nStarted, tag, vin, vout, env, su, cl, cv,
                   sc, du, fs, rg,
                   ev, ua, fr, pg>>

NextDL ==
    \/ \E resume \in BOOLEAN : DLCall(resume)
    \/ DLWrite
    \/ DLReturn
    \/ DLPublish

SpecDL == InitDL /\ [][NextDL]_vars

-----------------------------------------------------------------------------
(* SpecVerify: verify_file_integrity applied to files and expected hashes  *)
(* drawn from bounded sets.                                                 *)

RECURSIVE SeqsUpTo(_, _)
SeqsUpTo(S, n) ==
    IF n = 0 THEN {<<>>}
    ELSE LET shorter == SeqsUpTo(S, n - 1)
         IN  shorter \cup {Append(s, x) : s \in shorter, x \in S}

VerifyFiles == {NoFile} \cup {File(d) : d \in SeqsUpTo({1, 2, 3}, MaxVerifyLen)}

\* None, "", and for some contents the digest as hexdigest gives it, in
\* upper case, and with its last character changed
VerifyHashes ==
    {PyNone, PyStr(<<>>)}
    \cup UNION { {PyStr(Sha256Hex(d)), PyStr(Upper(Sha256Hex(d))),
                  PyStr(Sha256Hex(d) \o <<"0">>)} :
                 d \in {<<>>, <<1>>, <<1, 2>>, <<3, 1>>} }

VerifyInputs == [file : VerifyFiles, hash : VerifyHashes, readOK : BOOLEAN]

InitVerify ==
    /\ config = RegistryMT
    /\ settings = DefaultSettings
    /\ remote = [c \in Components |-> ReleaseContent(1)]
    /\ temp = [c \in Components |-> NoFile]
    /\ tag = [c \in Components |-> "absent"]
    /\ dest = ShippedModels
    /\ ledger = NoVersions
    /\ backups = [c \in Components |-> <<>>]
    /\ pc = [w \in Workers |-> "idle"]
    /\ queue = [w \in Workers |-> <<>>]
    /\ cur = [w \in Workers |-> "-"]
    /\ dl = [w \in Workers |-> NoDl]
    /\ att = [w \in Workers |-> NoAtt]
    /\ lver = [w \in Workers |-> NoVersions]
    /\ nStarted = 0
    /\ nPublished = 0
    /\ vin \in VerifyInputs
    /\ vout = NoVout
    /\ env = "any"
    /\ su = NoSu
    /\ cl = NoCl
    /\ cv = NoCv
    /\ sc = NoSc
    /\ du = NoDu
    /\ ev = NoEv
    /\ ua = NoUa
    /\ fr = NoFr
    /\ pg = NoPg
    /\ fs = NoFs
    /\ rg = NoRg

VerifyCall ==
    /\ ~vout.done
    /\ vout' = [done |-> TRUE,
                res |-> VerifyFileIntegrity(vin.file, vin.hash, vin.readOK)]
    /\ UNCHANGED <<config, settings, remote, temp, dest, ledger, backups, pc, queue, cur,
                   dl, att, lver, nStarted, nPublished, tag, vin, env, su, cl, cv,
                   sc, du, fs, rg,
                   ev, ua, fr, pg>>

SpecVerify == InitVerify /\ [][VerifyCall]_vars

-----------------------------------------------------------------------------
(* SpecApp: the application self-update of src/update_manager.py:           *)
(* download_and_install_update, download_update, install_update with        *)
(* create_backup and create_update_script, and the helper script.           *)

\* updates started (download_and_install_update calls) in one behaviour
MaxRounds == 4

pipeVars == <<config, settings, remote, temp, dest, ledger, backups, pc, queue, cur,
              dl, att, lver, nStarted, nPublished, tag, vin, vout>>

\* str.lower() on the letters of a file name
NameLowerCh(ch) ==
    CASE ch = "A" -> "a" [] ch = "E" -> "e" [] ch = "X" -> "x"
      [] ch = "Z" -> "z" [] ch = "I" -> "i" [] ch = "P" -> "p"
      [] OTHER -> ch
NameLower(name) == [i \in 1..Len(name) |-> NameLowerCh(name[i])]
\* str.endswith
EndsWith(str, suffix) == IsSuffix(suffix, str)

ExeExt == <<".", "e", "x", "e">>
ZipExt == <<".", "z", "i", "p">>

\* An archive is the marker chunk followed by its members; a member below
\* the marker is an .exe file, one above it is some other file.
ZipMarker == 20
OtherMember == 30
IsZipArchive(data) == Len(data) > 0 /\ data[1] = ZipMarker
ZipExeMembers(data) == SelectSeq(Tail(data), LAMBDA x : x < ZipMarker)

\* One asset of a release: name, whether browser_download_url is present,
\* the declared size (0 = not declared) and what the url serves.
Asset(name, url, size, body) == [name |-> name, url |-> url, size |-> size, body |-> body]

\* The asset lists of the releases the model is run on, for new executable x
ReleaseAssets(x) ==
    { <<Asset(<<"a">> \o ExeExt, TRUE, 1, x)>>,
      <<Asset(<<"a">> \o ExeExt, TRUE, 0, x)>>,
      <<Asset(<<"a">> \o ExeExt, TRUE, 2, x)>>,
      <<Asset(<<"a">> \o ExeExt, FALSE, 1, x)>>,
      <<Asset(<<"A", ".", "E", "X", "E">>, TRUE, 1, x)>>,
      <<Asset(<<"a">> \o ZipExt, TRUE, 2, <<ZipMarker>> \o x)>>,
      <<Asset(<<"a">> \o ZipExt, TRUE, 2, <<ZipMarker, OtherMember>>)>>,
      <<Asset(<<"a">> \o ZipExt, TRUE, 1, x)>>,
      <<Asset(<<"A", ".", "Z", "I", "P">>, TRUE, 2, <<ZipMarker>> \o x)>>,
      <<Asset(<<"n", ".", "t", "x", "t">>, TRUE, 1, <<OtherMember>>)>>,
      <<Asset(<<"n", ".", "t", "x", "t">>, TRUE, 1, <<OtherMember>>),
        Asset(<<"a">> \o ExeExt, TRUE, 1, x)>> }

\* download_update lines 141-148: the first asset whose lower-cased name
\* ends in .exe or .zip; 0 when there is none
Selectable(asset) ==
    EndsWith(NameLower(asset.name), ExeExt) \/ EndsWith(NameLower(asset.name), ZipExt)
SelectAsset(assets) ==
    IF \E i \in 1..Len(assets) : Selectable(assets[i])
    THEN CHOOSE i \in 1..Len(assets) :
             Selectable(assets[i]) /\ \A j \in 1..(i - 1) : ~Selectable(assets[j])
    ELSE 0

\* install_update lines 252 and 260: the branch taken for the downloaded
\* file, by its name as it is
InstallBranch(update_file) ==
    IF EndsWith(update_file, ExeExt) THEN "exe"
    ELSE IF EndsWith(update_file, ZipExt) THEN "zip"
    ELSE "none"

\* lines 247-248: where install_update goes after create_backup returned
MutInstallIgnoresBackup(backup_ok) == "backed_up"

InstallAfterBackup(backup_ok) == IF backup_ok THEN "backed_up" ELSE "idle"

\* UpdateManager.download_and_install_update: the dialog is shown, the
\* signals are connected and download_thread is started
DownloadAndInstallUpdate(assets) ==
    /\ su.pc = "idle"
    /\ su.rounds < MaxRounds
    /\ su' = [su EXCEPT !.pc = "download", !.assets = assets, !.rounds = @ + 1,
                        !.backup = "none", !.staged = FALSE, !.helper = FALSE,
                        !.result = "none", !.exe0 = su.exe, !.canceled = FALSE]
    /\ UNCHANGED <<pipeVars, env, cl, cv,
                   sc, du, fs, rg,
                   ev, ua, fr, pg>>

\* progress.canceled -> on_canceled (lines 459-463) while the download
\* thread runs: thread.join(timeout=1) waits at most a second for it and
\* returns; the thread goes on and on_downloaded stays connected.
OnCanceled ==
    /\ su.pc = "download"
    /\ ~su.canceled
    /\ su' = [su EXCEPT !.canceled = TRUE]
    /\ UNCHANGED <<pipeVars, env, cl, cv,
                   sc, du, fs, rg,
                   ev, ua, fr, pg>>

\* UpdateChecker.download_update, whole: no asset or no url, a request that
\* fails, a stream that breaks after j chunks, a size that differs from the
\* declared one -- each ends in error_occurred, on which on_error closes
\* the dialog; otherwise update_downloaded is emitted.
DownloadUpdate ==
    /\ su.pc = "download"
    /\ LET i == SelectAsset(su.assets)
       IN  IF i = 0 \/ ~su.assets[i].url
           THEN su' = [su EXCEPT !.pc = "idle"]
           ELSE \E reqOK \in BOOLEAN, j \in 0..Len(su.assets[i].body) :
                  LET a == su.assets[i]
                      written == [name |-> a.name, data |-> SubSeq(a.body, 1, j)]
                  IN  IF ~reqOK
                      THEN j = 0 /\ su' = [su EXCEPT !.pc = "idle"]
                      ELSE IF j < Len(a.body) \/ (a.size > 0 /\ j # a.size)
                      THEN su' = [su EXCEPT !.pc = "idle", !.file = written]
                      ELSE su' = [su EXCEPT !.pc = "downloaded", !.file = written]
    /\ UNCHANGED <<pipeVars, env, cl, cv,
                   sc, du, fs, rg,
                   ev, ua, fr, pg>>

\* on_downloaded -> install_update lines 244-248 with create_backup: a
\* snapshot directory stamped with the time, holding the current executable;
\* when create_backup raises after makedirs, the directory stays, incomplete.
InstallCreateBackup ==
    /\ su.pc = "downloaded"
    /\ \E outcome \in {"ok", "failed", "failed_partial"} :
         su' = [su EXCEPT
                  !.backup = IF outcome = "ok" THEN "ok" ELSE "failed",
                  !.clock = IF outcome = "failed" THEN @ ELSE @ + 1,
                  !.backups = IF outcome = "failed" THEN @
                              ELSE Append(@, [ctime |-> su.clock + 1,
                                              complete |-> outcome = "ok",
                                              exe |-> su.exe]),
                  !.pc = InstallAfterBackup(outcome = "ok"),
                  !.result = IF InstallAfterBackup(outcome = "ok") = "idle"
                             THEN "false" ELSE @]
    /\ UNCHANGED <<pipeVars, env, cl, cv,
                   sc, du, fs, rg,
                   ev, ua, fr, pg>>

\* install_update lines 250-285 up to the copy to current_exe + '.new'.
\* The copy, the opening of the archive or its extraction may raise
\* (copyOK = FALSE); an archive without an .exe returns False; a name that
\* ends in neither extension skips both branches.
InstallStage ==
    /\ su.pc = "backed_up"
    /\ \E copyOK \in BOOLEAN :
         LET branch == InstallBranch(su.file.name)
             found == CASE branch = "exe" -> <<su.file.data>>
                        [] branch = "zip" /\ IsZipArchive(su.file.data) ->
                             IF ZipExeMembers(su.file.data) = <<>> THEN <<>>
                             ELSE <<<<Head(ZipExeMembers(su.file.data))>>>>
                        [] OTHER -> <<>>
         IN  IF branch = "none"
             THEN copyOK /\ su' = [su EXCEPT !.pc = "finish"]
             ELSE IF found = <<>> \/ ~copyOK
             THEN su' = [su EXCEPT !.pc = "idle", !.result = "false"]
             ELSE su' = [su EXCEPT !.pc = "staged", !.staged = TRUE,
                                   !.newexe = File(found[1])]
    /\ UNCHANGED <<pipeVars, env, cl, cv,
                   sc, du, fs, rg,
                   ev, ua, fr, pg>>

\* create_update_script: the script is written and started with Popen;
\* either may raise, which install_update turns into False
InstallLaunch ==
    /\ su.pc = "staged"
    /\ \E launchOK \in BOOLEAN :
         su' = IF launchOK
               THEN [su EXCEPT !.pc = "finish", !.helper = TRUE]
               ELSE [su EXCEPT !.pc = "idle", !.result = "false"]
    /\ UNCHANGED <<pipeVars, env, cl, cv,
                   sc, du, fs, rg,
                   ev, ua, fr, pg>>

\* install_update lines 287-288 and on_downloaded lines 438-441: True is
\* returned, the dialog is closed and the application quits
InstallFinish ==
    /\ su.pc = "finish"
    /\ su' = [su EXCEPT !.pc = "exiting", !.result = "true"]
    /\ UNCHANGED <<pipeVars, env, cl, cv,
                   sc, du, fs, rg,
                   ev, ua, fr, pg>>

\* The helper script: it ends the application, moves the new executable
\* over the current one (which may fail) and starts the application again.
HelperReplace ==
    /\ su.pc = "exiting"
    /\ su.helper
    /\ \E moved \in BOOLEAN :
         su' = [su EXCEPT
                  !.pc = "idle", !.helper = FALSE, !.staged = FALSE,
                  !.backup = "none", !.result = "none", !.canceled = FALSE,
                  !.exe = IF moved /\ su.newexe.ex THEN su.newexe.data ELSE @,
                  !.newexe = IF moved THEN NoFile ELSE @,
                  !.installs = IF moved /\ su.newexe.ex THEN @ + 1 ELSE @]
    /\ UNCHANGED <<pipeVars, env, cl, cv,
                   sc, du, fs, rg,
                   ev, ua, fr, pg>>

InitApp ==
    /\ config = RegistryMT
    /\ settings = DefaultSettings
    /\ remote = [c \in Components |-> ReleaseContent(1)]
    /\ temp = [c \in Components |-> NoFile]
    /\ tag = [c \in Components |-> "absent"]
    /\ dest = ShippedModels
    /\ ledger = NoVersions
    /\ backups = [c \in Components |-> <<>>]
    /\ pc = [w \in Workers |-> "idle"]
    /\ queue = [w \in Workers |-> <<>>]
    /\ cur = [w \in Workers |-> "-"]
    /\ dl = [w \in Workers |-> NoDl]
    /\ att = [w \in Workers |-> NoAtt]
    /\ lver = [w \in Workers |-> NoVersions]
    /\ nStarted = 0
    /\ nPublished = 0
    /\ vin = NoVin
    /\ vout = NoVout
    /\ env = "any"
    /\ su = NoSu
    /\ cl = NoCl
    /\ cv = NoCv
    /\ sc = NoSc
    /\ du = NoDu
    /\ ev = NoEv
    /\ ua = NoUa
    /\ fr = NoFr
    /\ pg = NoPg
    /\ fs = NoFs
    /\ rg = NoRg

NextApp ==
    \/ \E assets \in ReleaseAssets(ExeContent(su.rounds + 1)) :
         DownloadAndInstallUpdate(assets)
    \/ OnCanceled
    \/ DownloadUpdate
    \/ InstallCreateBackup
    \/ InstallStage
    \/ InstallLaunch
    \/ InstallFinish
    \/ HelperReplace

SpecApp == InitApp /\ [][NextApp]_vars

-----------------------------------------------------------------------------
(* SpecCleanup: UpdateChecker.cleanup_old_backups applied to directories   *)
(* and keep counts drawn from bounded sets.  Nothing in the program calls  *)
(* it, so it is not part of SpecApp.                                       *)

\* entries of .backup in one call
MaxDirEntries == 3
\* largest keep_count drawn
MaxKeep == 2
\* creation times drawn for the entries
MaxCtime == 3

\* What an entry of the directory can be: a snapshot directory made by
\* create_backup ("backup_..."), a plain file with such a name, or a
\* directory with another name.
EntryKinds == {"snapshot", "file", "otherdir"}
Entry(id, ctime, kind) == [id |-> id, ctime |-> ctime, kind |-> kind]

\* line 351: os.path.isdir(item_path) and item.startswith('backup_')
IsBackupDir(e) == e.kind = "snapshot"

\* os.listdir: directories of up to n entries, in the order the listing has
RECURSIVE DirsUpTo(_)
DirsUpTo(n) ==
    IF n = 0 THEN {<<>>}
    ELSE LET shorter == DirsUpTo(n - 1)
         IN  shorter \cup
             {Append(d, Entry(Len(d) + 1, t, k)) :
                d \in {x \in shorter : Len(x) = n - 1}, t \in 1..MaxCtime, k \in EntryKinds}

\* line 355: backups.sort(key=ctime, reverse=True); the sort is stable, so
\* entries of equal ctime keep the order of the listing
RECURSIVE SortByCtimeDesc(_)
SortByCtimeDesc(seq) ==
    IF seq = <<>> THEN <<>>
    ELSE LET h == Head(seq)
             rest == SortByCtimeDesc(Tail(seq))
             k == Cardinality({i \in 1..Len(rest) : rest[i].ctime > h.ctime})
         IN  SubSeq(rest, 1, k) \o <<h>> \o SubSeq(rest, k + 1, Len(rest))

\* line 358: backups[keep_count:]
MutDeleteNewest(sorted, keep_count) == SubSeq(sorted, 1, Len(sorted) - keep_count)

ToDelete(sorted, keep_count) == SubSeq(sorted, keep_count + 1, Len(sorted))

\* cleanup_old_backups, whole.  listing = "raise": listdir or getctime
\* raises, which the except clause swallows; fails: the entries on which
\* rmtree fails (ignore_errors=True leaves them).  The result says whether
\* an exception left the call and which entries are in the directory after.
CleanupOldBackups(dir, keep_count, fails, listing) ==
    LET all == {dir[i] : i \in 1..Len(dir)}
        listed == SelectSeq(dir, IsBackupDir)
        victims == ToDelete(SortByCtimeDesc(listed), keep_count)
        removed == {victims[i] : i \in 1..Len(victims)}
    IN  IF listing = "raise"
        THEN [raised |-> FALSE, left |-> all]
        ELSE [raised |-> FALSE, left |-> {e \in all : e \notin removed \/ e.id \in fails}]

CleanupInputs ==
    [dir : DirsUpTo(MaxDirEntries), keep_count : 0..MaxKeep,
     fails : {{}} \cup {{i} : i \in 1..MaxDirEntries}, listing : {"ok", "raise"}]

InitCleanup ==
    /\ config = RegistryMT
    /\ settings = DefaultSettings
    /\ remote = [c \in Components |-> ReleaseContent(1)]
    /\ temp = [c \in Components |-> NoFile]
    /\ tag = [c \in Components |-> "absent"]
    /\ dest = ShippedModels
    /\ ledger = NoVersions
    /\ backups = [c \in Components |-> <<>>]
    /\ pc = [w \in Workers |-> "idle"]
    /\ queue = [w \in Workers |-> <<>>]
    /\ cur = [w \in Workers |-> "-"]
    /\ dl = [w \in Workers |-> NoDl]
    /\ att = [w \in Workers |-> NoAtt]
    /\ lver = [w \in Workers |-> NoVersions]
    /\ nStarted = 0
    /\ nPublished = 0
    /\ vin = NoVin
    /\ vout = NoVout
    /\ env = "any"
    /\ su = NoSu
    /\ cv = NoCv
    /\ sc = NoSc
    /\ du = NoDu
    /\ ev = NoEv
    /\ ua = NoUa
    /\ fr = NoFr
    /\ pg = NoPg
    /\ fs = NoFs
    /\ rg = NoRg
    /\ \E i \in CleanupInputs :
         cl = [NoCl EXCEPT !.dir = i.dir, !.keep_count = i.keep_count,
                           !.fails = i.fails, !.listing = i.listing]

CleanupCall ==
    /\ ~cl.done
    /\ LET r == CleanupOldBackups(cl.dir, cl.keep_count, cl.fails, cl.listing)
       IN  cl' = [cl EXCEPT !.done = TRUE, !.raised = r.raised, !.left = r.left]
    /\ UNCHANGED <<pipeVars, env, su, cv,
                   sc, du, fs, rg,
                   ev, ua, fr, pg>>

SpecCleanup == InitCleanup /\ [][CleanupCall]_vars

-----------------------------------------------------------------------------
(* SpecCmp: UpdateChecker.compare_versions (the application resolver) and  *)
(* ModelSyncManager.compare_versions (the component resolver) applied to   *)
(* version values drawn from bounded sets.                                 *)

\* segments of the generated dotted-numeric versions
\* The clock of the scheduler runs over 0..MaxNow hours and the check
\* intervals over 0..MaxInterval hours.
MaxNow == 3
MaxInterval == 2

MaxSegments == 2

\* Code points, as far as their order goes, of the characters that occur in
\* the segments
CharOrder == <<"0", "1", "2", "3", "4", "5", "6", "7", "8", "9", "V", "a", "b", "v">>
CharCode(ch) == CHOOSE i \in 1..Len(CharOrder) : CharOrder[i] = ch

\* s < t on str: at the first position where they differ, or s a proper
\* prefix of t
StrLess(s, t) ==
    \/ Len(s) < Len(t) /\ SubSeq(t, 1, Len(s)) = s
    \/ \E k \in 1..Min(Len(s), Len(t)) :
         /\ SubSeq(s, 1, k - 1) = SubSeq(t, 1, k - 1)
         /\ CharCode(s[k]) < CharCode(t[k])

\* str.lstrip('v'): every leading 'v' is removed
RECURSIVE LStripV(_)
LStripV(s) == IF Len(s) > 0 /\ s[1] = "v" THEN LStripV(Tail(s)) ELSE s

\* v.extend(['0'] * (max_len - len(v)))
MutPadOneStrings(parts, n) == parts \o [i \in 1..(n - Len(parts)) |-> <<"1">>]

PadZeroStrings(parts, n) == parts \o [i \in 1..(n - Len(parts)) |-> <<"0">>]

\* update_manager.py lines 102-114, one round of the loop: 1, -1, or 0 to
\* go on.  When int() raises ValueError on either segment, the segments are
\* compared as strings.
MutSegmentNeverOlder(x, y) ==
    IF IntParses(x) /\ IntParses(y)
    THEN IF IntOf(x) # IntOf(y) THEN 1 ELSE 0
    ELSE IF StrLess(y, x) THEN 1 ELSE IF StrLess(x, y) THEN -1 ELSE 0

AppCompareSegment(x, y) ==
    IF IntParses(x) /\ IntParses(y)
    THEN IF IntOf(x) > IntOf(y) THEN 1 ELSE IF IntOf(x) < IntOf(y) THEN -1 ELSE 0
    ELSE IF StrLess(y, x) THEN 1 ELSE IF StrLess(x, y) THEN -1 ELSE 0

\* lines 93-116, the body of the try block: the exception that leaves it,
\* or the value it returns
AppCompareBody(version1, version2) ==
    IF version1.isNone \/ version2.isNone
    THEN [exc |-> "AttributeError", val |-> 0]
    ELSE LET s1 == SplitDots(LStripV(version1.s))
             s2 == SplitDots(LStripV(version2.s))
             max_len == IF Len(s1) > Len(s2) THEN Len(s1) ELSE Len(s2)
             v1 == PadZeroStrings(s1, max_len)
             v2 == PadZeroStrings(s2, max_len)
             diff == {i \in 1..max_len : AppCompareSegment(v1[i], v2[i]) # 0}
         IN  [exc |-> "none",
              val |-> IF diff = {} THEN 0
                      ELSE LET i == CHOOSE k \in diff : \A m \in diff : k <= m
                           IN  AppCompareSegment(v1[i], v2[i])]

\* model_sync.py lines 301-316, the body of the try block
ModelCompareBody(version1, version2) ==
    IF version1.isNone \/ version2.isNone
    THEN [exc |-> "AttributeError", val |-> 0]
    ELSE IF \E seg \in {SplitDots(version1.s)[i] : i \in 1..Len(SplitDots(version1.s))}
                       \cup {SplitDots(version2.s)[i] : i \in 1..Len(SplitDots(version2.s))} :
                 ~IntParses(seg)
    THEN [exc |-> "ValueError", val |-> 0]
    ELSE [exc |-> "none", val |-> ModelCompareVersions(version1.s, version2.s)]

\* `except Exception: return 0` around the body (update_manager.py lines
\* 118-119, model_sync.py lines 317-318): what the caller gets
MutExceptValueErrorOnly(r) ==
    IF r.exc = "none" THEN [raised |-> FALSE, val |-> r.val]
    ELSE IF r.exc = "ValueError" THEN [raised |-> FALSE, val |-> 0]
    ELSE [raised |-> TRUE, val |-> 0]

ExceptReturnsZero(r) ==
    IF r.exc = "none" THEN [raised |-> FALSE, val |-> r.val]
    ELSE [raised |-> FALSE, val |-> 0]

\* UpdateChecker.compare_versions and ModelSyncManager.compare_versions
AppCompareVersions(version1, version2) ==
    ExceptReturnsZero(AppCompareBody(version1, version2))
ModelCompareVersionsCall(version1, version2) ==
    ExceptReturnsZero(ModelCompareBody(version1, version2))

\* The version values the resolvers are run on
NumSegments == {<<"0">>, <<"1">>, <<"1", "0">>}
RECURSIVE DottedUpTo(_)
DottedUpTo(n) ==
    IF n = 1 THEN NumSegments
    ELSE LET shorter == DottedUpTo(n - 1)
         IN  shorter \cup {s \o <<".">> \o g : s \in shorter, g \in NumSegments}

\* dotted-numeric versions: the generated ones and those the documents name
WellFormedVersions ==
    DottedUpTo(MaxSegments)
    \cup { <<"1", ".", "2">>, <<"1", ".", "2", ".", "0">>,
           <<"1", ".", "0", ".", "0">>, <<"1", ".", "9", ".", "9">>,
           <<"2", ".", "0", ".", "0">> }

\* versions with a leading marker, a non-numeric or empty segment
OtherVersions ==
    { <<"v", "2", ".", "0", ".", "0">>, <<"v", "1", ".", "0">>,
      <<"v", "1", ".", "0", ".", "0">>,
      <<"v", "v", "1", ".", "0">>, <<"V", "1", ".", "0">>,
      <<"1", ".", "a">>, <<"1", ".", "b">>, <<"1", ".", "a", ".", "0">>,
      <<"1", ".", "1", "0", "a">>, <<"1", ".", "2", "b">>, <<"1", ".">>,
      <<"1", ".", ".", "0">>, <<>>, <<"a">> }

IsWellFormed(v) == ~v.isNone /\ v.s \in WellFormedVersions

CompareInputs ==
    {<<PyStr(a), PyStr(b), PyStr(c)>> : a \in WellFormedVersions,
                                        b \in WellFormedVersions,
                                        c \in WellFormedVersions}
    \cup {<<a, b, PyStr(<<"1">>)>> :
            a \in {PyNone} \cup {PyStr(x) : x \in WellFormedVersions \cup OtherVersions},
            b \in {PyNone} \cup {PyStr(x) : x \in WellFormedVersions \cup OtherVersions}}

InitCmp ==
    /\ config = RegistryMT
    /\ settings = DefaultSettings
    /\ remote = [c \in Components |-> ReleaseContent(1)]
    /\ temp = [c \in Components |-> NoFile]
    /\ tag = [c \in Components |-> "absent"]
    /\ dest = ShippedModels
    /\ ledger = NoVersions
    /\ backups = [c \in Components |-> <<>>]
    /\ pc = [w \in Workers |-> "idle"]
    /\ queue = [w \in Workers |-> <<>>]
    /\ cur = [w \in Workers |-> "-"]
    /\ dl = [w \in Workers |-> NoDl]
    /\ att = [w \in Workers |-> NoAtt]
    /\ lver = [w \in Workers |-> NoVersions]
    /\ nStarted = 0
    /\ nPublished = 0
    /\ vin = NoVin
    /\ vout = NoVout
    /\ env = "any"
    /\ su = NoSu
    /\ cl = NoCl
    /\ \E i \in CompareInputs : cv = [NoCv EXCEPT !.a = i[1], !.b = i[2], !.c = i[3]]
    /\ sc = NoSc
    /\ du = NoDu
    /\ ev = NoEv
    /\ ua = NoUa
    /\ fr = NoFr
    /\ pg = NoPg
    /\ fs = NoFs
    /\ rg = NoRg

\* both resolvers are called on the pairs (a,b), (b,a), (b,c) and (a,c)
CompareCall ==
    /\ ~cv.done
    /\ LET Run(F(_, _)) ==
               LET rab == F(cv.a, cv.b)
                   rba == F(cv.b, cv.a)
                   rbc == F(cv.b, cv.c)
                   rac == F(cv.a, cv.c)
               IN  [ab |-> rab.val, ba |-> rba.val, bc |-> rbc.val, ac |-> rac.val,
                    raised |-> rab.raised \/ rba.raised \/ rbc.raised \/ rac.raised]
       IN  cv' = [cv EXCEPT !.done = TRUE,
                            !.app = Run(AppCompareVersions),
                            !.model = Run(ModelCompareVersionsCall)]
    /\ UNCHANGED <<pipeVars, env, su, cl,
                   sc, du, fs, rg,
                   ev, ua, fr, pg>>

SpecCmp == InitCmp /\ [][CompareCall]_vars

-----------------------------------------------------------------------------
(* SpecDue: AutoUpdater.should_check_updates and should_check_models        *)
(* applied to settings and times drawn from bounded sets.  Time is counted  *)
(* in hours.                                                                *)

\* The values a last_*_check setting can have
Stamps == {NoStamp, EmptyStamp, BadStamp} \cup {IsoStamp(t) : t \in 0..MaxNow}

\* `if not last_check:` -- None and "" are both false
StampTruthy(stamp) == stamp.kind \in {"bad", "iso"}

\* datetime.fromisoformat(last_check): the time, or an exception
FromIsoFormat(stamp) ==
    IF stamp.kind = "iso" THEN [exc |-> FALSE, val |-> stamp.t]
    ELSE [exc |-> TRUE, val |-> 0]

\* datetime.now() - last_check_time >= timedelta(hours=interval_hours)
MutIntervalStrict(now, last_check_time, interval_hours) ==
    now - last_check_time > interval_hours

IntervalElapsed(now, last_check_time, interval_hours) ==
    now - last_check_time >= interval_hours

\* lines 176-191
ShouldCheckUpdates(stg, now) ==
    IF ~stg.auto_check_updates THEN FALSE
    ELSE IF ~StampTruthy(stg.last_update_check) THEN TRUE
    ELSE LET last_check_time == FromIsoFormat(stg.last_update_check)
         IN  IF last_check_time.exc THEN TRUE
             ELSE IntervalElapsed(now, last_check_time.val,
                                  stg.update_check_interval_hours)

\* lines 193-208
ShouldCheckModels(stg, now) ==
    IF ~stg.auto_check_models THEN FALSE
    ELSE IF ~StampTruthy(stg.last_model_check) THEN TRUE
    ELSE LET last_check_time == FromIsoFormat(stg.last_model_check)
         IN  IF last_check_time.exc THEN TRUE
             ELSE IntervalElapsed(now, last_check_time.val,
                                  stg.model_check_interval_hours)

\* The settings a settings file can give, over the keys the scheduler reads
ScheduleSettings(stamps, intervals) ==
    {[DefaultSettings EXCEPT !.auto_check_updates = eu, !.auto_check_models = em,
                             !.update_check_interval_hours = iu,
                             !.model_check_interval_hours = im,
                             !.last_update_check = su0, !.last_model_check = sm0] :
        eu \in BOOLEAN, em \in BOOLEAN, iu \in intervals, im \in intervals,
        su0 \in stamps, sm0 \in stamps}

\* The sync pipeline after construction, with no thread started
PipelineAtRest ==
    /\ config = RegistryMT
    /\ remote = [c \in Components |-> ReleaseContent(1)]
    /\ temp = [c \in Components |-> NoFile]
    /\ tag = [c \in Components |-> "absent"]
    /\ dest = ShippedModels
    /\ ledger = NoVersions
    /\ backups = [c \in Components |-> <<>>]
    /\ pc = [w \in Workers |-> "idle"]
    /\ queue = [w \in Workers |-> <<>>]
    /\ cur = [w \in Workers |-> "-"]
    /\ dl = [w \in Workers |-> NoDl]
    /\ att = [w \in Workers |-> NoAtt]
    /\ lver = [w \in Workers |-> NoVersions]
    /\ nStarted = 0
    /\ nPublished = 0
    /\ vin = NoVin
    /\ vout = NoVout
    /\ env = "any"

InitDue ==
    /\ PipelineAtRest
    /\ settings \in ScheduleSettings(Stamps, 0..MaxInterval)
    /\ su = NoSu
    /\ cl = NoCl
    /\ cv = NoCv
    /\ sc = NoSc
    /\ du = NoDu
    /\ ev = NoEv
    /\ ua = NoUa
    /\ fr = NoFr
    /\ pg = NoPg
    /\ fs = NoFs
    /\ rg = NoRg

ShouldCheckUpdatesCall ==
    /\ ~du.done
    /\ \E now \in 0..MaxNow :
         du' = [done |-> TRUE, kind |-> "app", now |-> now,
                due |-> ShouldCheckUpdates(settings, now)]
    /\ UNCHANGED <<pipeVars, env, su, cl, cv, sc, fs, rg,
                   ev, ua, fr, pg>>

ShouldCheckModelsCall ==
    /\ ~du.done
    /\ \E now \in 0..MaxNow :
         du' = [done |-> TRUE, kind |-> "model", now |-> now,
                due |-> ShouldCheckModels(settings, now)]
    /\ UNCHANGED <<pipeVars, env, su, cl, cv, sc, fs, rg,
                   ev, ua, fr, pg>>

NextDue == ShouldCheckUpdatesCall \/ ShouldCheckModelsCall

SpecDue == InitDue /\ [][NextDue]_vars

-----------------------------------------------------------------------------
(* SpecSched: the scheduler of AutoUpdater: start_auto_updater, the two     *)
(* timers, perform_startup_checks, the check threads, force_check_all, the  *)
(* toggles and the interval setters, and a crash of the process followed    *)
(* by a new start.  The managers exist (init_managers succeeded).  What a   *)
(* check does once it runs (the query, the sync it may start) is the        *)
(* subject of Spec and SpecApp; here it is one step of the thread.          *)

pipeVarsNoSettings ==
    <<config, remote, temp, dest, ledger, backups, pc, queue, cur,
      dl, att, lver, nStarted, nPublished, tag, vin, vout>>

\* calls of start_auto_updater, configuration calls (toggles, setters,
\* force_check_all, stop_auto_updater), check threads alive at a time and
\* crashes in one behaviour
MaxStartUps == 2
MaxOps == 1
MaxChecks == 2
MaxCrashes == 1
\* the clock of the scheduler runs over 0..MaxHours
MaxHours == 1

Enabled(stg, k) ==
    IF k = "app" THEN stg.auto_check_updates ELSE stg.auto_check_models
IntervalHours(stg, k) ==
    IF k = "app" THEN stg.update_check_interval_hours
    ELSE stg.model_check_interval_hours
LastCheck(stg, k) ==
    IF k = "app" THEN stg.last_update_check ELSE stg.last_model_check
ShouldCheck(stg, k, now) ==
    IF k = "app" THEN ShouldCheckUpdates(stg, now) ELSE ShouldCheckModels(stg, now)

\* save_settings (lines 92-102): the file is rewritten with the settings,
\* or the write raises, which is printed and swallowed
SaveSettings(stg, file, ok) == IF ok THEN stg ELSE file

\* QTimer.start(msec): starts the timer, or restarts it when it runs
TimerStart(hours, by) ==
    [active |-> TRUE, interval |-> hours, left |-> hours, by |-> by]
\* QTimer.stop()
TimerStop(tm, by) == [tm EXCEPT !.active = FALSE, !.by = by]

\* start_periodic_checks (lines 152-160), called by the operation `by`
StartPeriodicChecks(stg, timer, by) ==
    [k \in Kinds |->
        IF Enabled(stg, k) THEN TimerStart(IntervalHours(stg, k), by) ELSE timer[k]]

\* A check thread as threading.Thread(target=check_thread).start() leaves
\* it: nothing run yet.
NewThread == [st |-> "new", at |-> 0, saved |-> FALSE]

\* check_for_app_updates / check_for_model_updates on the main thread
\* (lines 210-215, 229-232; 234-239, 269-270): a new thread per call
CheckFor(th, k) == [th EXCEPT ![k] = Append(@, NewThread)]

\* the check threads that have not ended
Alive(th) == Len(th["app"]) + Len(th["model"])
\* a sequence without its i-th element
RemoveAt(seq, i) == SubSeq(seq, 1, i - 1) \o SubSeq(seq, i + 1, Len(seq))

\* lines 140-150
StartAutoUpdater ==
    /\ sc.starts < MaxStartUps
    /\ IF ~settings.auto_check_updates /\ ~settings.auto_check_models
       THEN sc' = [sc EXCEPT !.starts = @ + 1, !.stopped = FALSE]
       ELSE sc' = [sc EXCEPT !.starts = @ + 1, !.pending = @ + 1,
                             !.stopped = FALSE,
                             !.timer = StartPeriodicChecks(settings, sc.timer,
                                                           "start_auto_updater")]
    /\ UNCHANGED <<settings, pipeVarsNoSettings, env, su, cl, cv, du, fs, rg,
                   ev, ua, fr, pg>>

\* lines 162-165
StopAutoUpdater ==
    /\ sc.ops < MaxOps
    /\ sc' = [sc EXCEPT !.ops = @ + 1,
                        !.stopped = TRUE,
                        !.timer = [k \in Kinds |->
                                     TimerStop(sc.timer[k], "stop_auto_updater")]]
    /\ UNCHANGED <<settings, pipeVarsNoSettings, env, su, cl, cv, du, fs, rg,
                   ev, ua, fr, pg>>

\* lines 167-174, run by the singleShot timer of start_auto_updater
PerformStartupChecks ==
    /\ sc.pending > 0
    /\ LET due == [k \in Kinds |-> ShouldCheck(settings, k, sc.now)]
           room == Alive(sc.th) + Cardinality({k \in Kinds : due[k]}) <= MaxChecks
           th1 == IF due["app"] THEN CheckFor(sc.th, "app") ELSE sc.th
           th2 == IF due["model"] THEN CheckFor(th1, "model") ELSE th1
       IN  /\ room
           /\ sc' = [sc EXCEPT !.pending = @ - 1, !.th = th2,
                               !.routine = Append(@, [t |-> sc.now, due |-> due,
                                                      last |-> [k \in Kinds |->
                                                                  LastCheck(settings, k)],
                                                      hours |-> [k \in Kinds |->
                                                                   IntervalHours(settings, k)]])]
    /\ UNCHANGED <<settings, pipeVarsNoSettings, env, su, cl, cv, du, fs, rg,
                   ev, ua, fr, pg>>

\* update_timer.timeout / model_timer.timeout (lines 129-138): the slot is
\* check_for_app_updates / check_for_model_updates, and the timer goes on
Timeout(k) ==
    /\ sc.timer[k].active /\ sc.timer[k].left = 0
    /\ Alive(sc.th) < MaxChecks
    /\ sc' = [sc EXCEPT !.th = CheckFor(sc.th, k),
                        !.timer[k].left = sc.timer[k].interval]
    /\ UNCHANGED <<settings, pipeVarsNoSettings, env, su, cl, cv, du, fs, rg,
                   ev, ua, fr, pg>>

\* lines 314-317
ForceCheckAll ==
    /\ sc.ops < MaxOps
    /\ Alive(sc.th) + 2 <= MaxChecks
    /\ sc' = [sc EXCEPT !.ops = @ + 1,
                        !.th = CheckFor(CheckFor(sc.th, "app"), "model")]
    /\ UNCHANGED <<settings, pipeVarsNoSettings, env, su, cl, cv, du, fs, rg,
                   ev, ua, fr, pg>>

\* lines 319-327
ToggleAutoUpdates(enabled) ==
    /\ sc.ops < MaxOps
    /\ \E ok \in BOOLEAN :
         LET stg == [settings EXCEPT !.auto_check_updates = enabled]
         IN  /\ settings' = stg
             /\ sc' = [sc EXCEPT
                         !.ops = @ + 1,
                         !.stopped = IF enabled THEN FALSE ELSE @,
                         !.file = SaveSettings(stg, sc.file, ok),
                         !.timer = IF enabled
                                   THEN StartPeriodicChecks(stg, sc.timer,
                                                            "toggle_auto_updates")
                                   ELSE [sc.timer EXCEPT
                                           !["app"] = TimerStop(@, "toggle_auto_updates")]]
    /\ UNCHANGED <<pipeVarsNoSettings, env, su, cl, cv, du, fs, rg,
                   ev, ua, fr, pg>>

\* lines 329-337
ToggleAutoModels(enabled) ==
    /\ sc.ops < MaxOps
    /\ \E ok \in BOOLEAN :
         LET stg == [settings EXCEPT !.auto_check_models = enabled]
         IN  /\ settings' = stg
             /\ sc' = [sc EXCEPT
                         !.ops = @ + 1,
                         !.stopped = IF enabled THEN FALSE ELSE @,
                         !.file = SaveSettings(stg, sc.file, ok),
                         !.timer = IF enabled
                                   THEN StartPeriodicChecks(stg, sc.timer,
                                                            "toggle_auto_models")
                                   ELSE [sc.timer EXCEPT
                                           !["model"] = TimerStop(@, "toggle_auto_models")]]
    /\ UNCHANGED <<pipeVarsNoSettings, env, su, cl, cv, du, fs, rg,
                   ev, ua, fr, pg>>

\* lines 339-346
SetUpdateInterval(hours) ==
    /\ sc.ops < MaxOps
    /\ \E ok \in BOOLEAN :
         LET stg == [settings EXCEPT !.update_check_interval_hours = hours]
         IN  /\ settings' = stg
             /\ sc' = [sc EXCEPT
                         !.ops = @ + 1,
                         !.file = SaveSettings(stg, sc.file, ok),
                         !.timer = IF stg.auto_check_updates
                                   THEN [sc.timer EXCEPT
                                           !["app"] = TimerStart(hours, "set_update_interval")]
                                   ELSE sc.timer]
    /\ UNCHANGED <<pipeVarsNoSettings, env, su, cl, cv, du, fs, rg,
                   ev, ua, fr, pg>>

\* lines 348-355
SetModelInterval(hours) ==
    /\ sc.ops < MaxOps
    /\ \E ok \in BOOLEAN :
         LET stg == [settings EXCEPT !.model_check_interval_hours = hours]
         IN  /\ settings' = stg
             /\ sc' = [sc EXCEPT
                         !.ops = @ + 1,
                         !.file = SaveSettings(stg, sc.file, ok),
                         !.timer = IF stg.auto_check_models
                                   THEN [sc.timer EXCEPT
                                           !["model"] = TimerStart(hours, "set_model_interval")]
                                   ELSE sc.timer]
    /\ UNCHANGED <<pipeVarsNoSettings, env, su, cl, cv, du, fs, rg,
                   ev, ua, fr, pg>>

\* self.settings["last_update_check"] = datetime.now().isoformat()
\* (line 218), self.settings["last_model_check"] = ... (line 242)
MutStampNothing(stg, k, now) == stg

StampLastCheck(stg, k, now) ==
    IF k = "app" THEN [stg EXCEPT !.last_update_check = IsoStamp(now)]
    ELSE [stg EXCEPT !.last_model_check = IsoStamp(now)]

\* check_thread, lines 217-219 / 241-243: the timestamp is set in memory and
\* save_settings is called
CheckThreadStamp(k, i) ==
    /\ i \in 1..Len(sc.th[k])
    /\ sc.th[k][i].st = "new"
    /\ \E ok \in BOOLEAN :
         LET stg == StampLastCheck(settings, k, sc.now)
         IN  /\ settings' = stg
             /\ sc' = [sc EXCEPT !.file = SaveSettings(stg, sc.file, ok),
                                 !.th[k][i] = [@ EXCEPT !.st = "check", !.at = sc.now,
                                                        !.saved = ok]]
    /\ UNCHANGED <<pipeVarsNoSettings, env, su, cl, cv, du, fs, rg,
                   ev, ua, fr, pg>>

\* check_thread, lines 221-227 / 245-267: the check itself and the
\* completion signal; an exception of the check ends the thread as well
CheckThreadCheck(k, i) ==
    /\ i \in 1..Len(sc.th[k])
    /\ sc.th[k][i].st = "check"
    /\ sc' = [sc EXCEPT !.th[k] = RemoveAt(@, i)]
    /\ UNCHANGED <<settings, pipeVarsNoSettings, env, su, cl, cv, du, fs, rg,
                   ev, ua, fr, pg>>

\* An hour passes; a timer that is due fires first.
Tick ==
    /\ sc.now < MaxHours
    /\ \A k \in Kinds : sc.timer[k].active => sc.timer[k].left > 0
    /\ sc' = [sc EXCEPT !.now = @ + 1,
                        !.timer = [k \in Kinds |->
                                     IF sc.timer[k].active
                                     THEN [sc.timer[k] EXCEPT !.left = @ - 1]
                                     ELSE sc.timer[k]]]
    /\ UNCHANGED <<settings, pipeVarsNoSettings, env, su, cl, cv, du, fs, rg,
                   ev, ua, fr, pg>>

\* The process dies (the check threads are daemon threads) and is started
\* again: the constructor reads the settings file (lines 50-59, 79-83).
Crash ==
    /\ sc.crashes < MaxCrashes
    /\ settings' = sc.file
    /\ sc' = [sc EXCEPT
                !.crashes = @ + 1,
                !.stopped = FALSE,
                !.timer = [k \in Kinds |-> NoTimer],
                !.th = [k \in Kinds |-> <<>>],
                !.pending = 0,
                !.routine = <<>>,
                !.mid = [k \in Kinds |->
                           IF \E i \in 1..Len(sc.th[k]) :
                                 sc.th[k][i].st = "check" /\ sc.th[k][i].saved
                           THEN LET i == CHOOSE j \in 1..Len(sc.th[k]) :
                                           sc.th[k][j].st = "check" /\ sc.th[k][j].saved
                                IN  sc.th[k][i].at
                           ELSE -1]]
    /\ UNCHANGED <<pipeVarsNoSettings, env, su, cl, cv, du, fs, rg,
                   ev, ua, fr, pg>>

InitSched ==
    /\ PipelineAtRest
    /\ settings \in ScheduleSettings({NoStamp, IsoStamp(0)}, {1})
    /\ settings.last_update_check = settings.last_model_check
    /\ su = NoSu
    /\ cl = NoCl
    /\ cv = NoCv
    /\ sc = [NoSc EXCEPT !.file = settings]
    /\ du = NoDu
    /\ ev = NoEv
    /\ ua = NoUa
    /\ fr = NoFr
    /\ pg = NoPg
    /\ fs = NoFs
    /\ rg = NoRg

NextSched ==
    \/ StartAutoUpdater
    \/ StopAutoUpdater
    \/ PerformStartupChecks
    \/ \E k \in Kinds : Timeout(k)
    \/ ForceCheckAll
    \/ \E enabled \in BOOLEAN : ToggleAutoUpdates(enabled)
    \/ \E enabled \in BOOLEAN : ToggleAutoModels(enabled)
    \/ \E hours \in 1..MaxInterval : SetUpdateInterval(hours)
    \/ \E hours \in 1..MaxInterval : SetModelInterval(hours)
    \/ \E k \in Kinds, i \in 1..MaxChecks : CheckThreadStamp(k, i)
    \/ \E k \in Kinds, i \in 1..MaxChecks : CheckThreadCheck(k, i)
    \/ Tick
    \/ Crash

SpecSched == InitSched /\ [][NextSched]_vars

-----------------------------------------------------------------------------
(* SpecSave: one call of ModelSyncManager.save_model_versions or of         *)
(* AutoUpdater.save_settings on a file drawn from a bounded set, with a     *)
(* crash of the process at any point of the call.  A text is a sequence of  *)
(* the pieces json.dump hands to f.write.                                   *)

\* longest text of a ledger or settings file
MaxText == 3

\* the JSON texts of at most n pieces
JsonTexts(n) == UNION {[1..k -> {1, 2}] : k \in 1..n}

\* with open(path, 'w', encoding='utf-8') as f: the file is created or
\* truncated at once
OpenForWrite(file) == File(<<>>)

\* save_model_versions, lines 279-280: the ledger is opened for writing
SaveModelVersionsOpen(text) ==
    /\ fs.st = "idle" /\ fs.target = "ledger"
    /\ fs' = [fs EXCEPT !.st = "open", !.new = text, !.file = OpenForWrite(fs.file)]
    /\ UNCHANGED <<pipeVars, env, su, cl, cv, sc, du, rg,
                   ev, ua, fr, pg>>

\* save_settings, lines 97-99: the settings file is opened for writing
SaveSettingsOpen(text) ==
    /\ fs.st = "idle" /\ fs.target = "settings"
    /\ fs' = [fs EXCEPT !.st = "open", !.new = text, !.file = OpenForWrite(fs.file)]
    /\ UNCHANGED <<pipeVars, env, su, cl, cv, sc, du, rg,
                   ev, ua, fr, pg>>

\* json.dump(..., f): the next piece of the text reaches the file
DumpPiece ==
    /\ fs.st = "open"
    /\ Len(fs.file.data) < Len(fs.new)
    /\ fs' = [fs EXCEPT !.file = File(Append(fs.file.data,
                                             fs.new[Len(fs.file.data) + 1]))]
    /\ UNCHANGED <<pipeVars, env, su, cl, cv, sc, du, rg,
                   ev, ua, fr, pg>>

\* the end of the with block: the file is closed and the call returns
DumpDone ==
    /\ fs.st = "open"
    /\ Len(fs.file.data) = Len(fs.new)
    /\ fs' = [fs EXCEPT !.st = "returned"]
    /\ UNCHANGED <<pipeVars, env, su, cl, cv, sc, du, rg,
                   ev, ua, fr, pg>>

\* a write raises (lines 101-102 / 282-283): the exception is printed and
\* the call returns with what was written
DumpRaises ==
    /\ fs.st = "open"
    /\ Len(fs.file.data) < Len(fs.new)
    /\ fs' = [fs EXCEPT !.st = "raised"]
    /\ UNCHANGED <<pipeVars, env, su, cl, cv, sc, du, rg,
                   ev, ua, fr, pg>>

\* the process dies while the file is open
CrashInSave ==
    /\ fs.st = "open"
    /\ fs' = [fs EXCEPT !.st = "crashed"]
    /\ UNCHANGED <<pipeVars, env, su, cl, cv, sc, du, rg,
                   ev, ua, fr, pg>>

InitSave ==
    /\ PipelineAtRest
    /\ settings = DefaultSettings
    /\ su = NoSu
    /\ cl = NoCl
    /\ cv = NoCv
    /\ sc = NoSc
    /\ du = NoDu
    /\ ev = NoEv
    /\ ua = NoUa
    /\ fr = NoFr
    /\ pg = NoPg
    /\ \E target \in {"ledger", "settings"},
          old \in {NoFile} \cup {File(t) : t \in JsonTexts(MaxText)} :
         fs = [NoFs EXCEPT !.target = target, !.file = old, !.old = old]
    /\ rg = NoRg

NextSave ==
    \/ \E text \in JsonTexts(MaxText) : SaveModelVersionsOpen(text)
    \/ \E text \in JsonTexts(MaxText) : SaveSettingsOpen(text)
    \/ DumpPiece
    \/ DumpDone
    \/ DumpRaises
    \/ CrashInSave

SpecSave == InitSave /\ [][NextSave]_vars

-----------------------------------------------------------------------------
(* SpecConfig: ModelSyncManager.load_config applied to registry files drawn *)
(* from a bounded set, followed by the key lookups of a download_model call *)
(* on the loaded registry.  A dict is a function from its keys.             *)

EntryKeys == {"url", "version", "type", "destination", "filename", "files", "hash"}

\* default_config, lines 206-244
DefaultModels ==
    [n \in {"vocos_model", "whisper_medium", "secure_model", "secure_vocab"} |->
        CASE n = "vocos_model" ->
               [k \in EntryKeys \ {"filename"} |->
                  CASE k = "url" -> ""
                    [] k = "version" -> "1.0.0"
                    [] k = "type" -> "zip"
                    [] k = "destination" -> "models/vocos_model"
                    [] k = "files" -> "config.yaml,pytorch_model.bin"
                    [] OTHER -> ""]
          [] OTHER ->
               [k \in EntryKeys \ {"files"} |->
                  CASE k = "url" -> ""
                    [] k = "version" -> "1.0.0"
                    [] k = "type" -> "file"
                    [] k = "destination" ->
                         IF n = "whisper_medium" THEN "models/whisper" ELSE "secure_models"
                    [] k = "filename" ->
                         IF n = "whisper_medium" THEN "medium.pt"
                         ELSE IF n = "secure_model" THEN "model.enc" ELSE "vocab.enc"
                    [] OTHER -> ""]]

TopKeys == {"models", "check_interval_hours", "auto_update", "backup_old_models"}

DefaultConfig ==
    [k \in TopKeys |->
        CASE k = "models" -> [kind |-> "dict", val |-> DefaultModels]
          [] k = "check_interval_hours" -> [kind |-> "int", val |-> "24"]
          [] OTHER -> [kind |-> "bool", val |-> "true"]]

\* {**d, **c}: the keys of both, the value of c where c has the key
DictMerge(d, c) ==
    [k \in (DOMAIN d) \cup (DOMAIN c) |-> IF k \in DOMAIN c THEN c[k] ELSE d[k]]

\* load_config, lines 246-257: the merged registry, or the defaults when
\* the file is absent or json.load raises
LoadConfigResult(ex, valid, file) ==
    IF ex /\ valid THEN DictMerge(DefaultConfig, file) ELSE DefaultConfig

\* The entries a registry file can hold for a component: a configured
\* release with any of the keys left out
FileEntries(n) ==
    {[k \in ks |->
        CASE k = "url" -> "http://host/" \o n
          [] k = "version" -> "2.0.0"
          [] k = "hash" -> ""
          [] OTHER -> DefaultModels[n][k]] : ks \in SUBSET (DOMAIN DefaultModels[n])}

\* The registry files: any of the top-level keys left out, and a "models"
\* object with an entry for one component
RegistryFiles ==
    UNION {{[k \in ks |->
               CASE k = "models" -> [kind |-> "dict", val |-> [x \in {n} |-> e]]
                 [] k = "check_interval_hours" -> [kind |-> "int", val |-> "12"]
                 [] OTHER -> [kind |-> "bool", val |-> "false"]] :
              ks \in SUBSET TopKeys, e \in FileEntries(n)} :
           n \in {"vocos_model", "whisper_medium"}}

\* download_model on an entry whose transfer, verification and copy go
\* well: url, hash and filename are read with .get (lines 352, 364, 380),
\* destination by index in backup_model (line 332, inside its try) and in
\* install_model (line 409, inside its try), type by index (line 363) and
\* version by index after the install (line 394).
DownloadModelOutcome(cfg, name) ==
    LET model_config == cfg["models"].val[name]
        has(k) == k \in DOMAIN model_config
    IN  IF ~has("url") \/ model_config["url"] = "" THEN "no_url"
        ELSE IF ~has("type") THEN "KeyError type"
        ELSE IF ~has("destination") THEN "install failed: KeyError destination"
        ELSE IF ~has("version") THEN "KeyError version"
        ELSE "ok"

InitConfig ==
    /\ PipelineAtRest
    /\ settings = DefaultSettings
    /\ su = NoSu
    /\ cl = NoCl
    /\ cv = NoCv
    /\ sc = NoSc
    /\ du = NoDu
    /\ ev = NoEv
    /\ ua = NoUa
    /\ fr = NoFr
    /\ pg = NoPg
    /\ fs = NoFs
    /\ \/ rg = NoRg
       \/ \E valid \in BOOLEAN, file \in RegistryFiles :
            rg = [NoRg EXCEPT !.ex = TRUE, !.valid = valid, !.file = file]

\* the constructor, line 196
LoadConfig ==
    /\ rg.st = "file"
    /\ rg' = [rg EXCEPT !.st = "loaded",
                        !.config = LoadConfigResult(rg.ex, rg.valid, rg.file)]
    /\ UNCHANGED <<pipeVars, env, su, cl, cv, sc, du, fs,
                   ev, ua, fr, pg>>

\* download_model(name) for a component of the loaded registry
DownloadModelCall(name) ==
    /\ rg.st = "loaded"
    /\ name \in DOMAIN rg.config["models"].val
    /\ rg' = [rg EXCEPT !.st = "called", !.name = name,
                        !.outcome = DownloadModelOutcome(rg.config, name)]
    /\ UNCHANGED <<pipeVars, env, su, cl, cv, sc, du, fs,
                   ev, ua, fr, pg>>

NextConfig ==
    \/ LoadConfig
    \/ \E name \in DOMAIN DefaultModels : DownloadModelCall(name)

SpecConfig == InitConfig /\ [][NextConfig]_vars

-----------------------------------------------------------------------------
(* SpecRace: one force_check_all; its two check threads stamp and save the  *)
(* shared settings, step by step.  The settings text is far smaller than    *)
(* the buffer of a text file object, so json.dump fills the buffer and the  *)
(* close at the end of the with block writes it, at offset 0 of the file.   *)

StampLen(stamp) == IF stamp.kind = "iso" THEN 1 ELSE 0

\* json.dump(self.settings, f, indent=2, ensure_ascii=False) (line 100)
JsonText(stg) ==
    [kind |-> "json", stg |-> stg,
     len |-> StampLen(stg.last_update_check) + StampLen(stg.last_model_check)]

\* The buffer of a file object written at offset 0 of the file as it is
\* now: a longer text already there keeps its tail.
Overlay(buf, file) ==
    IF file.kind = "empty" \/ file.len <= buf.len THEN buf
    ELSE [kind |-> "corrupt", stg |-> buf.stg, len |-> file.len]

\* force_check_all (lines 314-317): both threads are started
RaceForceCheckAll ==
    /\ fr.st = "idle"
    /\ fr' = [fr EXCEPT !.st = "running",
                        !.th = [k \in Kinds |-> [pc |-> "new", at |-> 0,
                                                 buf |-> EmptyText]]]
    /\ UNCHANGED <<settings, pipeVarsNoSettings, env, su, cl, cv, sc, du, fs, rg,
                   ev, ua, pg>>

\* check_thread, line 218 / 242: the timestamp is set in the shared dict
RaceStamp(k) ==
    /\ fr.th[k].pc = "new"
    /\ settings' = StampLastCheck(settings, k, fr.now)
    /\ fr' = [fr EXCEPT !.th[k].pc = "stamped", !.th[k].at = fr.now]
    /\ UNCHANGED <<pipeVarsNoSettings, env, su, cl, cv, sc, du, fs, rg,
                   ev, ua, pg>>

\* save_settings, line 99: open(self.settings_file, 'w') truncates the file
RaceOpen(k) ==
    /\ fr.th[k].pc = "stamped"
    /\ fr' = [fr EXCEPT !.th[k].pc = "open", !.file = EmptyText]
    /\ UNCHANGED <<settings, pipeVarsNoSettings, env, su, cl, cv, sc, du, fs, rg,
                   ev, ua, pg>>

\* save_settings, line 100: json.dump serialises the shared dict as it is
\* now into the buffer of the file object
RaceDump(k) ==
    /\ fr.th[k].pc = "open"
    /\ fr' = [fr EXCEPT !.th[k].pc = "dumped", !.th[k].buf = JsonText(settings)]
    /\ UNCHANGED <<settings, pipeVarsNoSettings, env, su, cl, cv, sc, du, fs, rg,
                   ev, ua, pg>>

\* save_settings, end of the with block: the buffer is written and the
\* file closed
RaceClose(k) ==
    /\ fr.th[k].pc = "dumped"
    /\ fr' = [fr EXCEPT !.th[k].pc = "done",
                        !.file = Overlay(fr.th[k].buf, fr.file)]
    /\ UNCHANGED <<settings, pipeVarsNoSettings, env, su, cl, cv, sc, du, fs, rg,
                   ev, ua, pg>>

\* An hour passes.
RaceTick ==
    /\ fr.now < MaxNow
    /\ fr' = [fr EXCEPT !.now = @ + 1]
    /\ UNCHANGED <<settings, pipeVarsNoSettings, env, su, cl, cv, sc, du, fs, rg,
                   ev, ua, pg>>

InitRace ==
    /\ PipelineAtRest
    /\ settings \in ScheduleSettings({NoStamp, IsoStamp(0)}, {1})
    /\ su = NoSu
    /\ cl = NoCl
    /\ cv = NoCv
    /\ sc = NoSc
    /\ du = NoDu
    /\ ev = NoEv
    /\ ua = NoUa
    /\ fr = [NoFr EXCEPT !.file = JsonText(settings)]
    /\ pg = NoPg
    /\ fs = NoFs
    /\ rg = NoRg

NextRace ==
    \/ RaceForceCheckAll
    \/ \E k \in Kinds : RaceStamp(k)
    \/ \E k \in Kinds : RaceOpen(k)
    \/ \E k \in Kinds : RaceDump(k)
    \/ \E k \in Kinds : RaceClose(k)
    \/ RaceTick

SpecRace == InitRace /\ [][NextRace]_vars

-----------------------------------------------------------------------------
(* SpecAvail: update-available events of the application and what the two   *)
(* slots connected to checker.update_available do with them, for every      *)
(* setting of silent_update and auto_install_updates.                       *)

MaxEvents == 2

\* the slots of checker.update_available: UpdateManager.on_update_available
\* (update_manager.py line 380) and AutoUpdater.on_app_update_available
\* (auto_updater.py line 122)
UpdateAvailableSlots == {"manager", "auto"}

\* download_and_install_update (update_manager.py lines 424-457): one more
\* on_downloaded is connected to checker.update_downloaded, nothing is
\* disconnected, and a download thread is started
StartDownloadAndInstall(u) ==
    [u EXCEPT !.runs = @ + 1, !.handlers = @ + 1, !.dls = @ + 1]

\* check_for_updates (lines 121-135) finds a newer release and emits
\* update_available; both slots are to run on the main thread
UpdateAvailableEmit ==
    /\ ua.pc = "running"
    /\ ua.pending = {}
    /\ ua.events < MaxEvents
    /\ ua' = [ua EXCEPT !.events = @ + 1, !.pending = UpdateAvailableSlots,
                        !.runs = 0]
    /\ UNCHANGED <<pipeVars, env, su, cl, cv, sc, du, fs, rg,
                   ev, fr, pg>>

\* UpdateManager.on_update_available (lines 403-422): the dialog, and the
\* update when the user answers Yes
OnUpdateAvailable(yes) ==
    /\ ua.pc = "running"
    /\ "manager" \in ua.pending
    /\ LET u == [ua EXCEPT !.pending = @ \ {"manager"}]
       IN  ua' = IF yes THEN StartDownloadAndInstall(u) ELSE u
    /\ UNCHANGED <<pipeVars, env, su, cl, cv, sc, du, fs, rg,
                   ev, fr, pg>>

\* AutoUpdater.on_app_update_available (auto_updater.py lines 272-291)
OnAppUpdateAvailable ==
    /\ ua.pc = "running"
    /\ "auto" \in ua.pending
    /\ LET u == [ua EXCEPT !.pending = @ \ {"auto"}]
       IN  ua' = IF settings.silent_update THEN u
                 ELSE IF settings.auto_install_updates
                      THEN StartDownloadAndInstall(u)
                      ELSE u
    /\ UNCHANGED <<pipeVars, env, su, cl, cv, sc, du, fs, rg,
                   ev, fr, pg>>

\* A download thread ends (download_update, lines 137-194): with an error
\* (error_occurred; every on_error closes its dialog), or with
\* update_downloaded, on which every connected on_downloaded (lines
\* 436-443) calls install_update; when an install succeeds the application
\* quits.
DownloadThreadEnds(ok, installed) ==
    /\ ua.pc = "running"
    /\ ua.dls > 0
    /\ ua' = [ua EXCEPT !.dls = @ - 1,
                        !.installs = IF ok THEN ua.handlers ELSE 0,
                        !.pc = IF ok /\ installed THEN "exiting" ELSE @]
    /\ UNCHANGED <<pipeVars, env, su, cl, cv, sc, du, fs, rg,
                   ev, fr, pg>>

InitAvail ==
    /\ PipelineAtRest
    /\ settings \in {[DefaultSettings EXCEPT !.silent_update = s,
                                              !.auto_install_updates = a] :
                        s \in BOOLEAN, a \in BOOLEAN}
    /\ su = NoSu
    /\ cl = NoCl
    /\ cv = NoCv
    /\ sc = NoSc
    /\ du = NoDu
    /\ ev = NoEv
    /\ ua = NoUa
    /\ fr = NoFr
    /\ pg = NoPg
    /\ fs = NoFs
    /\ rg = NoRg

NextAvail ==
    \/ UpdateAvailableEmit
    \/ \E yes \in BOOLEAN : OnUpdateAvailable(yes)
    \/ OnAppUpdateAvailable
    \/ \E ok \in BOOLEAN, installed \in BOOLEAN : DownloadThreadEnds(ok, installed)

SpecAvail == InitAvail /\ [][NextAvail]_vars

-----------------------------------------------------------------------------
(* SpecProgress: the progress values of one transfer, for a declared total  *)
(* size, a resume offset and a response body drawn from bounded sets; the   *)
(* body arrives in chunks of any size.                                      *)

MaxTotal == 3
MaxBody == 3

\* int((downloaded_size / total_size) * 100): for the sizes drawn here the
\* float product truncates to the integer quotient
ProgressPercent(downloaded, total) == (downloaded * 100) \div total

\* one round of the chunk loop, given the size counted so far
CountChunk(p, n) ==
    LET d == p.downloaded + n
    IN  IF p.total > 0
        THEN [p EXCEPT !.downloaded = d, !.left = @ - n,
                       !.emits = @ + 1, !.last = ProgressPercent(d, p.total)]
        ELSE [p EXCEPT !.downloaded = d, !.left = @ - n]

\* download_file, lines 118-126
DownloadFileChunk(n) ==
    /\ pg.side = "model"
    /\ n \in 1..pg.left
    /\ pg' = CountChunk(pg, n)
    /\ UNCHANGED <<pipeVars, env, su, cl, cv, sc, du, fs, rg,
                   ev, ua, fr>>

\* download_update, lines 171-180
DownloadUpdateChunk(n) ==
    /\ pg.side = "app"
    /\ n \in 1..pg.left
    /\ pg' = CountChunk(pg, n)
    /\ UNCHANGED <<pipeVars, env, su, cl, cv, sc, du, fs, rg,
                   ev, ua, fr>>

\* download_file counts from the size of the partial file (lines 85-86,
\* 114) and has its total from get_file_size (0 when unknown);
\* download_update counts from 0 (line 171) and has its total from the
\* size of the asset (0 when absent).
InitProgress ==
    /\ PipelineAtRest
    /\ settings = DefaultSettings
    /\ su = NoSu
    /\ cl = NoCl
    /\ cv = NoCv
    /\ sc = NoSc
    /\ du = NoDu
    /\ ev = NoEv
    /\ ua = NoUa
    /\ fr = NoFr
    /\ pg \in {[NoPg EXCEPT !.side = side, !.total = total, !.initial = initial,
                             !.left = body, !.downloaded = initial] :
                  side \in {"model", "app"}, total \in 0..MaxTotal,
                  initial \in 0..MaxTotal, body \in 1..MaxBody}
    /\ pg.side = "app" => pg.initial = 0
    /\ fs = NoFs
    /\ rg = NoRg

NextProgress ==
    \/ \E n \in 1..MaxBody : DownloadFileChunk(n)
    \/ \E n \in 1..MaxBody : DownloadUpdateChunk(n)

SpecProgress == InitProgress /\ [][NextProgress]_vars

-----------------------------------------------------------------------------
(* SpecEvents: calls of check_for_app_updates and check_for_model_updates   *)
(* and their check threads, with the answer of the release host, the        *)
(* ledger and the presence of the managers drawn from bounded sets.         *)
(* SpecEventsLive adds that a started thread is scheduled: its body has no  *)
(* loop and every request in it has a timeout.                              *)

MaxCheckCalls == 3

\* get_latest_release (update_manager.py lines 59-87): None on any failure,
\* or the release, whose tag_name may be null
AppReleases ==
    {[ok |-> FALSE, tag |-> PyNone]}
    \cup {[ok |-> TRUE, tag |-> t] :
            t \in {PyNone, PyStr(<<"v", "1", ".", "0", ".", "0">>),
                   PyStr(<<"v", "1", ".", "1", ".", "0">>),
                   PyStr(<<"0", ".", "9">>)}}

\* UpdateManager.get_current_version: '1.0.0' without a version.json
CurrentVersion == <<"1", ".", "0", ".", "0">>

\* UpdateChecker.check_for_updates (update_manager.py lines 121-135):
\* whether it found a newer release (and emitted update_available), and
\* whether it raised (None.lstrip)
CheckForUpdates(release, current) ==
    IF ~release.ok THEN [found |-> FALSE, raised |-> FALSE]
    ELSE IF release.tag.isNone THEN [found |-> FALSE, raised |-> TRUE]
    ELSE [found |-> AppCompareVersions(PyStr(LStripV(release.tag.s)),
                                       PyStr(LStripV(current))).val > 0,
          raised |-> FALSE]

\* ModelSyncManager.check_for_model_updates as the check thread calls it
\* (line 248): the list is not empty, or the call raised (a registry
\* without "models")
ModelCheck(cfg, versions, raises) ==
    IF raises THEN [found |-> FALSE, raised |-> TRUE]
    ELSE [found |-> Len(CheckForModelUpdates(cfg, versions)) > 0, raised |-> FALSE]

\* the ledgers a component check may read: nothing recorded, every
\* component at the registry's version, m2 behind
LedgerInputs ==
    {NoVersions,
     [c \in Components |-> ReleaseVersion(1)],
     [c \in Components |-> IF c = "m1" THEN ReleaseVersion(1) ELSE <<"0", ".", "9">>]}

\* the two checks on every input drawn, computed once
AppCheckOutcome ==
    [release \in AppReleases |-> CheckForUpdates(release, CurrentVersion)]
ModelCheckOutcome ==
    [versions \in LedgerInputs |->
        [raises \in BOOLEAN |-> ModelCheck(RegistryMT, versions, raises)]]

\* the argument of update_check_completed / model_sync_completed: the
\* result of the check (lines 223, 261, 263), False from the except
\* branch (lines 227, 267)
MutCompletedTrue(r) == TRUE

CompletedValue(r) == IF r.raised THEN FALSE ELSE r.found

NewCheck(k) == [kind |-> k, st |-> "new", found |-> FALSE, completed |-> 0,
                has |-> FALSE]

\* check_for_app_updates on the calling thread (lines 210-215, 229-232)
EvCheckForAppUpdates ==
    /\ ev.calls < MaxCheckCalls
    /\ Len(ev.checks) < MaxChecks
    /\ ev' = IF ~ev.manager["app"] THEN [ev EXCEPT !.calls = @ + 1]
             ELSE [ev EXCEPT !.calls = @ + 1, !.checks = Append(@, NewCheck("app"))]
    /\ UNCHANGED <<pipeVars, env, su, cl, cv, sc, du, fs, rg,
                   ua, fr, pg>>

\* check_for_model_updates on the calling thread (lines 234-239, 269-270)
EvCheckForModelUpdates ==
    /\ ev.calls < MaxCheckCalls
    /\ Len(ev.checks) < MaxChecks
    /\ ev' = IF ~ev.manager["model"] THEN [ev EXCEPT !.calls = @ + 1]
             ELSE [ev EXCEPT !.calls = @ + 1, !.checks = Append(@, NewCheck("model"))]
    /\ UNCHANGED <<pipeVars, env, su, cl, cv, sc, du, fs, rg,
                   ua, fr, pg>>

\* check_thread, lines 217-219 / 242-245: the timestamp and save_settings,
\* which swallows its own exceptions
EvThreadStamp(i) ==
    /\ i \in 1..Len(ev.checks)
    /\ ev.checks[i].st = "new"
    /\ settings' = StampLastCheck(settings, ev.checks[i].kind, 1)
    /\ ev' = [ev EXCEPT !.checks[i].st = "stamped"]
    /\ UNCHANGED <<pipeVarsNoSettings, env, su, cl, cv, sc, du, fs, rg,
                   ua, fr, pg>>

\* check_thread, lines 221-227 / 247-267: the check, what follows a find
\* of the component check (sync_models_async or a notification), and the
\* completed signal, from the try or from the except branch
EvThreadCheck(i) ==
    /\ i \in 1..Len(ev.checks)
    /\ ev.checks[i].st = "stamped"
    /\ \E release \in AppReleases, raises \in BOOLEAN :
         LET r == IF ev.checks[i].kind = "app"
                  THEN AppCheckOutcome[release]
                  ELSE ModelCheckOutcome[ledger][raises]
             model == ev.checks[i].kind = "model" /\ r.found
         IN  ev' = [ev EXCEPT !.checks[i] = [@ EXCEPT !.st = "done",
                                                     !.found = r.found,
                                                     !.completed = @ + 1,
                                                     !.has = CompletedValue(r)],
                              !.syncs = IF model /\ settings.auto_install_models
                                        THEN 1 ELSE @,
                              !.notes = IF model /\ ~settings.auto_install_models
                                        THEN 1 ELSE @]
    /\ UNCHANGED <<pipeVars, env, su, cl, cv, sc, du, fs, rg,
                   ua, fr, pg>>

\* init_managers (lines 104-117): update_manager is made first, so a
\* failure leaves none or only update_manager
InitEvents ==
    /\ config = RegistryMT
    /\ remote = [c \in Components |-> ReleaseContent(1)]
    /\ temp = [c \in Components |-> NoFile]
    /\ tag = [c \in Components |-> "absent"]
    /\ dest = ShippedModels
    /\ ledger \in LedgerInputs
    /\ backups = [c \in Components |-> <<>>]
    /\ pc = [w \in Workers |-> "idle"]
    /\ queue = [w \in Workers |-> <<>>]
    /\ cur = [w \in Workers |-> "-"]
    /\ dl = [w \in Workers |-> NoDl]
    /\ att = [w \in Workers |-> NoAtt]
    /\ lver = [w \in Workers |-> NoVersions]
    /\ nStarted = 0
    /\ nPublished = 0
    /\ vin = NoVin
    /\ vout = NoVout
    /\ env = "any"
    /\ settings \in {[DefaultSettings EXCEPT !.auto_install_models = a] :
                        a \in BOOLEAN}
    /\ su = NoSu
    /\ cl = NoCl
    /\ cv = NoCv
    /\ sc = NoSc
    /\ du = NoDu
    /\ ev \in {[NoEv EXCEPT !.manager = [k \in Kinds |->
                                            IF k = "app" THEN n >= 1 ELSE n >= 2]] :
                  n \in 0..2}
    /\ ua = NoUa
    /\ fr = NoFr
    /\ pg = NoPg
    /\ fs = NoFs
    /\ rg = NoRg

NextEvents ==
    \/ EvCheckForAppUpdates
    \/ EvCheckForModelUpdates
    \/ \E i \in 1..MaxChecks : EvThreadStamp(i)
    \/ \E i \in 1..MaxChecks : EvThreadCheck(i)

SpecEvents == InitEvents /\ [][NextEvents]_vars

SpecEventsLive ==
    /\ SpecEvents
    /\ \A i \in 1..MaxChecks : WF_vars(EvThreadStamp(i)) /\ WF_vars(EvThreadCheck(i))

-----------------------------------------------------------------------------
(* Properties of the sync pipeline *)

\* C1: when backup_model fails, the install attempt for the component is
\* aborted: download_file is not entered, install_model is not called, the
\* installed artifact is what it was when the attempt started, and the
\* component's ledger entry is unchanged.
C1_BackupFailureAborts ==
    \A w \in Workers :
        att[w].backup = "failed" =>
            /\ ~att[w].started
            /\ att[w].install = "none"
            /\ dest[cur[w]] = att[w].dest0
            /\ ~att[w].wrote
            /\ ledger[cur[w]] = att[w].ledger0

\* C2: the ledger is written only in a download_model call in which the
\* staged artifact was accepted by verify_file_integrity and install_model
\* returned success, and only after that; in a call that fails, the ledger
\* is what it was.
C2_LedgerOnlyAfterAcceptAndInstall ==
    \A w \in Workers :
        /\ att[w].wrote => (att[w].accepted /\ att[w].install = "ok")
        /\ ~att[w].wrote /\ cur[w] \in Components => ledger[cur[w]] = att[w].ledger0

\* C3: no two threads are at the same time writing a response to the staged
\* file of the same component.
C3_OneTransferPerComponent ==
    \A w1, w2 \in Workers :
        (w1 # w2 /\ pc[w1] = "download" /\ pc[w2] = "download"
           /\ dl[w1].st = "open" /\ dl[w2].st = "open")
        => cur[w1] # cur[w2]

\* C6: a download_file call never takes a staged file that was installed
\* successfully as the base of a resume: on such a file it starts at offset 0.
C6_NoResumeFromInstalled ==
    \A w \in Workers :
        (dl[w].st # "none" /\ dl[w].base = "installed") =>
            (dl[w].initial_pos = 0 /\ ~dl[w].ranged /\ dl[w].mode = "wb")

\* C7: in a download_model call whose artifact fails the check against the
\* configured hash, install_model is not called, the installed artifact
\* stays what it was and the ledger is not written.
C7_RejectedNeverInstalled ==
    \A w \in Workers :
        att[w].verify = "rejected" =>
            /\ pc[w] \notin {"install", "ledger_read", "ledger_write"}
            /\ att[w].install = "none"
            /\ dest[cur[w]] = att[w].dest0
            /\ ~att[w].wrote

\* C7 witness: a call has ended with its artifact rejected
C7_Witness ==
    \E w \in Workers : att[w].verify = "rejected" /\ pc[w] = "sync"

\* C8: a download_file call never takes a staged file that the integrity
\* check rejected, and whose content does not match the configured hash, as
\* the base of a resume: on such a file it starts at offset 0 and overwrites.
C8_NoResumeFromRejected ==
    \A w \in Workers :
        (/\ dl[w].st # "none"
         /\ dl[w].base = "rejected"
         /\ ~VerifyFileIntegrity(dl[w].file0, config.models[cur[w]].hash, TRUE))
        => (dl[w].initial_pos = 0 /\ ~dl[w].ranged /\ dl[w].mode = "wb")

\* C9: with no hash configured, a staged file that is missing or empty is
\* not installed and the ledger is not written for it.
C9_WeakCheckBeforeInstall ==
    \A w \in Workers :
        (att[w].verify = "skipped" /\ ~att[w].accepted) =>
            /\ att[w].install \notin {"ok", "partial"}
            /\ dest[cur[w]] = att[w].dest0
            /\ ~att[w].wrote

\* C13: with the host serving what is asked and no local operation failing,
\* a download_model call for a component that is installed, has a ledger
\* version older than the registry version, a url and the correct hash
\* (backups enabled) returns with the ledger entry at the registry version,
\* the installed artifact matching the hash, and one snapshot of the prior
\* artifact made by that call.
C13_EndToEnd ==
    \A w \in Workers :
        (/\ env = "good"
         /\ pc[w] = "sync" /\ cur[w] \in Components
         /\ config.models[cur[w]].url # ""
         /\ config.backup_old_models
         /\ att[w].dest0.ex
         /\ ModelCompareVersions(config.models[cur[w]].version,
                                 IF att[w].ledger0 = <<>> THEN DefaultLedgerVersion
                                 ELSE att[w].ledger0) > 0
         /\ Truthy(config.models[cur[w]].hash)
         /\ VerifyFileIntegrity(File(remote[cur[w]]), config.models[cur[w]].hash, TRUE))
        => (/\ ledger[cur[w]] = config.models[cur[w]].version
            /\ VerifyFileIntegrity(dest[cur[w]], config.models[cur[w]].hash, TRUE)
            /\ att[w].backup = "ok"
            /\ backups[cur[w]] # <<>>
            /\ backups[cur[w]][Len(backups[cur[w]])] = att[w].dest0.data)

\* download_model has returned False in thread w: the loop of sync_thread
\* is back at its head and the call did not get past install_model.
DownloadModelFailed(w) ==
    pc[w] = "sync" /\ cur[w] \in Components /\ att[w].install # "ok"

\* download_model has returned True in thread w (model_updated was emitted)
DownloadModelSucceeded(w) ==
    pc[w] = "sync" /\ cur[w] \in Components /\ att[w].install = "ok"

\* C26: an integrity, backup or install failure of a download_model call
\* reaches the notification channel (notification_requested), whether
\* silent_update is set or not.
C26_FailureEscalatedAlsoWhenSilent ==
    \A w \in Workers, silent \in BOOLEAN :
        (/\ pc[w] = "sync" /\ cur[w] \in Components
         /\ \/ att[w].verify = "rejected"
            \/ att[w].backup = "failed"
            \/ att[w].install \in {"failed", "partial"})
        => OnModelSyncError([settings EXCEPT !.silent_update = silent], att[w].err)

\* C28: after install_model has failed, the installed artifact is what it
\* was when the attempt started.
C28_InstallErrorNoPartialOverwrite ==
    \A w \in Workers :
        att[w].install \in {"failed", "partial"} => dest[cur[w]] = att[w].dest0

\* C29: when download_model has returned False, sync_error was emitted in
\* the call.
C29_EveryFailureReported ==
    \A w \in Workers : DownloadModelFailed(w) => att[w].err

\* C34: with two sync threads, the ledger entry a thread has written for
\* the component it installed is not lost or reverted by the ledger write
\* of the other thread.
C34_LedgerEntryNotLost ==
    \A w \in Workers :
        (att[w].wrote /\ cur[w] \in Components)
        => ledger[cur[w]] = config.models[cur[w]].version

\* C38: once download_model has returned True for a component, the ledger
\* holds the registry version of the component and check_for_model_updates
\* does not list it.
C38_SuccessIsFixpoint ==
    \A w \in Workers :
        DownloadModelSucceeded(w) =>
            /\ ledger[cur[w]] = config.models[cur[w]].version
            /\ \A i \in 1..Len(CheckForModelUpdates(config, ledger)) :
                  CheckForModelUpdates(config, ledger)[i] # cur[w]

-----------------------------------------------------------------------------
(* Properties of download_file (SpecDL) *)

\* The call has returned True after resuming from file0, a proper,
\* non-empty prefix of the remote content, with a 206 answer to its range
\* request.
ResumedFromPartial ==
    /\ dl[1].st = "ret" /\ dl[1].ok
    /\ dl[1].resume /\ dl[1].file0.ex
    /\ Len(dl[1].file0.data) > 0
    /\ Len(dl[1].file0.data) < Len(remote["m1"])
    /\ IsPrefix(dl[1].file0.data, remote["m1"])
    /\ dl[1].status = 206

\* C4: a successful resume from a partial file of K bytes, 0 < K < T, with
\* a server that honours the range, leaves exactly the T bytes of the
\* remote content: the request starts at K and bytes K..T-1 are appended once.
C4_ResumeCompletesFile ==
    ResumedFromPartial =>
        LET K == Len(dl[1].file0.data)
            T == Len(remote["m1"])
        IN  /\ dl[1].ranged /\ dl[1].initial_pos = K
            /\ dl[1].body = SubSeq(remote["m1"], K + 1, T)
            /\ temp["m1"].ex
            /\ Len(temp["m1"].data) = T
            /\ temp["m1"].data = remote["m1"]

C4_Witness == ResumedFromPartial

\* C5: when a range was requested from K > 0 and the server answers with
\* the full content, download_file does not report success with a local
\* file that differs from the remote content.
C5_FullResponseNotAppended ==
    (/\ dl[1].st = "ret" /\ dl[1].ok
     /\ dl[1].resume /\ dl[1].ranged /\ dl[1].initial_pos > 0
     /\ ~dl[1].reissued /\ ~dl[1].html
     /\ dl[1].status = 200 /\ dl[1].body = remote["m1"])
    => temp["m1"].data = remote["m1"]

\* C27: download_file does not return True after writing an HTML page to
\* the local path: a page without a confirmation link, or a page given in
\* answer to the re-issued request, ends the call in failure.
C27_HtmlNeverWrittenAsSuccess ==
    (dl[1].st = "ret" /\ dl[1].ok) => ~dl[1].html

\* C37: a response is written in append mode to a partial file of K bytes
\* only if the request it answers carried the range K-; the request
\* re-issued against the confirmation link carries the range of the
\* original request whenever the file is opened in append mode.
C37_AppendOnlyRangedResponse ==
    (dl[1].st \in {"open", "ret"} /\ dl[1].status # 0 /\ dl[1].mode = "ab")
    => (dl[1].ranged /\ ~dl[1].reissued)

-----------------------------------------------------------------------------
(* Properties of verify_file_integrity (SpecVerify) *)

\* an expected hash is given: not None and not the empty string
HashGiven(h) == ~h.isNone /\ h.s # <<>>

\* C10: verify_file_integrity returns true exactly when the file exists and
\* either a hash is given and equals the file's digest, compared without
\* regard to case, or no hash is given and the file is not empty.
C10_VerifyContract ==
    vout.done =>
        (vout.res <=>
            /\ vin.file.ex
            /\ \/ /\ HashGiven(vin.hash)
                  /\ vin.readOK
                  /\ Upper(Sha256Hex(vin.file.data)) = Upper(vin.hash.s)
               \/ /\ ~HashGiven(vin.hash)
                  /\ Len(vin.file.data) > 0)

\* C10 witness: a file was accepted on a hash written in upper case
C10_Witness ==
    /\ vout.done /\ vout.res
    /\ HashGiven(vin.hash)
    /\ vin.hash.s # Sha256Hex(vin.file.data)

-----------------------------------------------------------------------------
(* Properties of the application self-update (SpecApp) *)

\* C11: in install_update the new executable is staged and the helper is
\* started only after create_backup has returned success; when create_backup
\* fails, install_update returns failure with nothing staged and no helper
\* started.
C11_BackupBeforeStage ==
    /\ (su.pc \in {"staged", "finish", "exiting"} \/ su.staged \/ su.helper)
          => su.backup = "ok"
    /\ su.backup = "failed" =>
          (su.pc = "idle" /\ su.result = "false" /\ ~su.staged /\ ~su.helper)

\* C11 witness: create_backup has failed and install_update has returned
C11_Witness ==
    su.backup = "failed" /\ su.pc = "idle" /\ su.file.data # <<>>

\* C12: install_update returns success (on which the application quits)
\* only after the backup was made, the new executable was staged and the
\* helper was started, in that order, whatever asset download_update
\* selected; and when it returns failure the application is back at rest
\* with its executable as it was.
C12_SelfReplaceOrder ==
    /\ (su.result = "true" \/ su.pc = "exiting")
          => (su.backup = "ok" /\ su.staged /\ su.helper)
    /\ su.helper => su.staged
    /\ su.staged => su.backup = "ok"
    /\ su.result = "false" => (su.pc = "idle" /\ su.exe = su.exe0 /\ ~su.helper)

\* C14: with retention N, once N + 3 updates have been installed one after
\* the other, exactly N snapshots remain under .backup, and they are the N
\* made last.
C14_RetentionAcrossInstalls ==
    \A N \in 1..(MaxRounds - 3) :
        (su.installs = N + 3 /\ su.pc = "idle") =>
            /\ Len(su.backups) = N
            /\ \A i \in 1..Len(su.backups) : su.backups[i].ctime > su.clock - N

\* C32: after the user has cancelled the dialog of an update, no step of
\* the installation of that update is performed: no backup, no staging of
\* the new executable, no helper, no quit.
C32_NoInstallAfterCancel ==
    su.canceled =>
        /\ su.backup = "none"
        /\ ~su.staged
        /\ ~su.helper
        /\ su.pc \in {"idle", "download", "downloaded"}

\* C36: while the scheduler is stopped (stop_auto_updater was called, and
\* neither start_auto_updater nor an enabling toggle since), no step starts
\* a check thread except an operation of the user (force_check_all), and
\* no step makes a stopped timer active.
C36_NoCheckWhileStopped ==
    [][(sc.stopped /\ sc'.stopped) =>
          /\ (Alive(sc'.th) > Alive(sc.th) => sc'.ops > sc.ops)
          /\ sc'.pending = sc.pending
          /\ \A k \in Kinds : sc'.timer[k].active => sc.timer[k].active]_vars

-----------------------------------------------------------------------------
(* Properties of cleanup_old_backups (SpecCleanup) *)

\* the snapshot directories among a set of entries
SnapshotsOf(entries) == {e \in entries : e.kind = "snapshot"}

\* C15: cleanup_old_backups(keep_count = N) never raises to its caller,
\* also when a deletion fails; and when nothing fails, the snapshots left
\* are min(N, number existing) many, none of them older than a removed one,
\* and every entry that is not a snapshot is still there.
C15_CleanupKeepsMostRecent ==
    cl.done =>
        /\ ~cl.raised
        /\ (cl.fails = {} /\ cl.listing = "ok") =>
              LET all == {cl.dir[i] : i \in 1..Len(cl.dir)}
                  before == SnapshotsOf(all)
                  after == SnapshotsOf(cl.left)
              IN  /\ cl.left \subseteq all
                  /\ all \ before \subseteq cl.left
                  /\ Cardinality(after) = Min(cl.keep_count, Cardinality(before))
                  /\ \A kept \in after, gone \in before \ after :
                        kept.ctime >= gone.ctime

\* C15 witness: a call that removed a snapshot and kept a newer one
C15_Witness ==
    /\ cl.done /\ cl.fails = {} /\ cl.listing = "ok"
    /\ \E kept \in SnapshotsOf(cl.left) :
         \E i \in 1..Len(cl.dir) :
             /\ cl.dir[i].kind = "snapshot" /\ cl.dir[i] \notin cl.left
             /\ kept.ctime > cl.dir[i].ctime

-----------------------------------------------------------------------------
(* Properties of the two compare_versions (SpecCmp) *)

\* r is antisymmetric on (a,b) and transitive on (a,b), (b,c), (a,c)
AntisymmetricTransitive(r) ==
    /\ r.ab = -r.ba
    /\ (r.ab >= 0 /\ r.bc >= 0) => r.ac >= 0
    /\ (r.ab <= 0 /\ r.bc <= 0) => r.ac <= 0
    /\ (r.ab > 0 /\ r.bc >= 0) => r.ac > 0
    /\ (r.ab >= 0 /\ r.bc > 0) => r.ac > 0
    /\ (r.ab = 0 /\ r.bc = 0) => r.ac = 0

\* C16: on dotted-numeric versions both compare_versions are antisymmetric
\* and transitive.
C16_AntisymmetricTransitive ==
    (cv.done /\ IsWellFormed(cv.a) /\ IsWellFormed(cv.b) /\ IsWellFormed(cv.c))
    => (AntisymmetricTransitive(cv.app) /\ AntisymmetricTransitive(cv.model))

\* C16 witness: three versions of different lengths in strictly falling order
C16_Witness ==
    /\ cv.done /\ IsWellFormed(cv.a) /\ IsWellFormed(cv.b) /\ IsWellFormed(cv.c)
    /\ Len(cv.a.s) < Len(cv.b.s) /\ Len(cv.c.s) < Len(cv.b.s)
    /\ cv.app.ab = 1 /\ cv.app.bc = 1 /\ cv.model.ab = 1 /\ cv.model.bc = 1

\* the call compared "1.2.0" (a) with "1.2" (b)
Compared120With12 ==
    /\ cv.done
    /\ cv.a = PyStr(<<"1", ".", "2", ".", "0">>)
    /\ cv.b = PyStr(<<"1", ".", "2">>)

\* C17, as stated: compare("1.2.0", "1.2") returns Newer (1).
C17_TrailingZeroNewer ==
    Compared120With12 => (cv.app.ab = 1 /\ cv.model.ab = 1)

\* C17, amended: compare("1.2.0", "1.2") returns Same (0), in both
\* directions and in both resolvers.
C17_TrailingZeroSame ==
    Compared120With12 =>
        (cv.app.ab = 0 /\ cv.app.ba = 0 /\ cv.model.ab = 0 /\ cv.model.ba = 0)

C17_Witness == Compared120With12

\* t is s followed by any number of ".0" segments
RECURSIVE ZeroExtension(_, _)
ZeroExtension(s, t) ==
    \/ t = s
    \/ /\ Len(t) >= Len(s) + 2
       /\ SubSeq(t, Len(t) - 1, Len(t)) = <<".", "0">>
       /\ ZeroExtension(s, SubSeq(t, 1, Len(t) - 2))

\* C18: two versions that differ only by trailing zero segments compare as
\* Same (0) in both resolvers; so do "1.0" and "1.0.0".
C18_PaddedSame ==
    (cv.done /\ ~cv.a.isNone /\ ~cv.b.isNone /\ ZeroExtension(cv.a.s, cv.b.s))
    => (cv.app.ab = 0 /\ cv.app.ba = 0 /\ cv.model.ab = 0 /\ cv.model.ba = 0)

\* C18 witness: "1.0" was compared with "1.0.0"
C18_Witness ==
    /\ cv.done
    /\ cv.a = PyStr(<<"1", ".", "0">>)
    /\ cv.b = PyStr(<<"1", ".", "0", ".", "0">>)
    /\ cv.app.ab = 0 /\ cv.model.ab = 0

\* C19: on every pair of versions, UpdateChecker.compare_versions and
\* ModelSyncManager.compare_versions return the same result.
C19_ResolversAgree ==
    cv.done =>
        /\ cv.app.ab = cv.model.ab
        /\ cv.app.ba = cv.model.ba
        /\ cv.app.bc = cv.model.bc
        /\ cv.app.ac = cv.model.ac

\* a segment of s that int() does not take
HasNonNumericSegment(s) ==
    \E i \in 1..Len(SplitDots(s)) : ~IntParses(SplitDots(s)[i])

\* C20: neither compare_versions raises to its caller, whatever the
\* inputs; a value that is no string at all gives 0 in both, and a segment
\* that the component resolver cannot interpret gives 0 there.
C20_NeverRaisesMalformedSame ==
    cv.done =>
        /\ ~cv.app.raised /\ ~cv.model.raised
        /\ (cv.a.isNone \/ cv.b.isNone) =>
              (cv.app.ab = 0 /\ cv.app.ba = 0 /\ cv.model.ab = 0 /\ cv.model.ba = 0)
        /\ (~cv.a.isNone /\ ~cv.b.isNone
              /\ (HasNonNumericSegment(cv.a.s) \/ HasNonNumericSegment(cv.b.s)))
             => (cv.model.ab = 0 /\ cv.model.ba = 0)

\* C20 witness: a call with None against a version string has returned
C20_Witness ==
    cv.done /\ cv.a.isNone /\ ~cv.b.isNone

-----------------------------------------------------------------------------
(* Properties of should_check_updates / should_check_models (SpecDue) *)

\* The settings of the kind the call was about
DuEnabled ==
    IF du.kind = "app" THEN settings.auto_check_updates ELSE settings.auto_check_models
DuStamp ==
    IF du.kind = "app" THEN settings.last_update_check ELSE settings.last_model_check
DuInterval ==
    IF du.kind = "app" THEN settings.update_check_interval_hours
    ELSE settings.model_check_interval_hours

\* C21: for each kind, the call reports "due" exactly when the kind is
\* enabled and either there is no timestamp that can be read (None, empty
\* or malformed) or now - lastCheckTimestamp >= the interval; with a
\* timestamp and less than the interval elapsed it reports "not due".
C21_DueExactlyWhen ==
    du.done =>
        /\ du.due <=> (DuEnabled /\ (DuStamp.kind # "iso"
                                      \/ du.now - DuStamp.t >= DuInterval))
        /\ (DuStamp.kind = "iso" /\ du.now - DuStamp.t < DuInterval) => ~du.due

\* an enabled kind asked exactly one interval after its last check
C21_Witness ==
    /\ du.done /\ du.kind = "model" /\ DuEnabled
    /\ DuStamp.kind = "iso" /\ DuInterval > 0
    /\ du.now - DuStamp.t = DuInterval
    /\ du.due

-----------------------------------------------------------------------------
(* Properties of the scheduler (SpecSched) *)

\* the setting holds the timestamp of a check made at hour t or later
StampedSince(stg, k, t) ==
    LastCheck(stg, k).kind = "iso" /\ LastCheck(stg, k).t >= t

C23_Debounce ==
    \A k \in Kinds :
        \A i, j \in 1..Len(sc.routine) :
            (/\ i < j
             /\ sc.routine[i].last[k].kind = "none" /\ sc.routine[i].due[k]
             /\ sc.routine[j].t - sc.routine[i].t < sc.routine[j].hours[k])
            => ~sc.routine[j].due[k]

\* C24: a toggle or an interval setter of one kind does not start, stop or
\* restart the timer of the other kind.
C24_TimersIndependent ==
    /\ sc.timer["model"].by \notin {"toggle_auto_updates", "set_update_interval"}
    /\ sc.timer["app"].by \notin {"toggle_auto_models", "set_model_interval"}

-----------------------------------------------------------------------------
(* Properties of the writers of the ledger and the settings file (SpecSave) *)

\* C25: after a crash during a write of the ledger or of the settings
\* file, the file is what it was before the call or holds the whole new
\* text.
C25_CrashLeavesOldOrNew ==
    fs.st = "crashed" => (fs.file = fs.old \/ fs.file = File(fs.new))

-----------------------------------------------------------------------------
(* Properties of load_config (SpecConfig) *)

\* C30: for a registry file that omits a key, at the top level or inside
\* the entry of a component, the loaded registry holds the default of the
\* key, and a download_model call does not fail on a missing key.
C30_MissingKeysFallBack ==
    (rg.st \in {"loaded", "called"} /\ rg.ex /\ rg.valid) =>
        /\ \A k \in TopKeys \ DOMAIN rg.file :
              k \in DOMAIN rg.config /\ rg.config[k] = DefaultConfig[k]
        /\ "models" \in DOMAIN rg.file =>
              \A n \in DOMAIN rg.file["models"].val :
                  \A k \in (DOMAIN DefaultModels[n]) \ DOMAIN rg.file["models"].val[n] :
                      /\ k \in DOMAIN rg.config["models"].val[n]
                      /\ rg.config["models"].val[n][k] = DefaultModels[n][k]
        /\ rg.st = "called" => rg.outcome \in {"ok", "no_url"}

-----------------------------------------------------------------------------
(* Properties of the concurrent saves of the settings (SpecRace) *)

\* C35: when both check threads of a force_check_all have saved the
\* settings, the settings file is the JSON text of settings that hold the
\* timestamp of the application check and that of the component check.
C35_BothStampsPersisted ==
    (\A k \in Kinds : fr.th[k].pc = "done") =>
        /\ fr.file.kind = "json"
        /\ fr.file.stg.last_update_check = IsoStamp(fr.th["app"].at)
        /\ fr.file.stg.last_model_check = IsoStamp(fr.th["model"].at)

-----------------------------------------------------------------------------
(* Properties of the update-available event of the application (SpecAvail) *)

\* C33: one update-available event starts at most one run of
\* download_and_install_update, one completed download calls
\* install_update at most once, and at most one download thread writes the
\* cached update file at a time.
C33_OneRunOneInstall ==
    /\ ua.runs <= 1
    /\ ua.installs <= 1
    /\ ua.dls <= 1

-----------------------------------------------------------------------------
(* Properties of the progress values (SpecProgress) *)

\* C39: a progress value is emitted only when the total size is known, and
\* every value emitted is between 0 and 100.
C39_ProgressIsPercentage ==
    pg.emits > 0 => (pg.total > 0 /\ pg.last \in 0..100)

-----------------------------------------------------------------------------
(* Properties of the check events (SpecEventsLive) *)

\* C31: a check that emitted its started signal emits at most one
\* completed signal, whose argument is true exactly when the check found a
\* newer version, and it does eventually emit one.
C31_StartedThenOneCompleted ==
    /\ [](\A i \in 1..Len(ev.checks) :
            /\ ev.checks[i].completed <= 1
            /\ ev.checks[i].st = "done" => ev.checks[i].completed = 1
            /\ ev.checks[i].completed = 1 => ev.checks[i].has = ev.checks[i].found)
    /\ \A i \in 1..MaxChecks :
          (Len(ev.checks) >= i) ~> (Len(ev.checks) >= i /\ ev.checks[i].completed = 1)

\* an application check and a component check have both completed, one
\* with a find and one without
C31_Witness ==
    \E i, j \in 1..Len(ev.checks) :
        /\ ev.checks[i].kind = "app" /\ ev.checks[i].completed = 1
        /\ ev.checks[i].has /\ ev.checks[i].found
        /\ ev.checks[j].kind = "model" /\ ev.checks[j].completed = 1
        /\ ~ev.checks[j].has /\ ~ev.checks[j].found

====
